---- MODULE Spec2Model ----
(***************************************************************************)
(* Model of the question-assembly pipeline of pdfsplit:                    *)
(*   - createLogicalQuestions (the Logical Question Grouper),              *)
(*   - WorkerPool and generateQuestionsFromRawPages (the scheduler),       *)
(*   - the chunked IndexedDB store (saveExamResult and friends).           *)
(* Each part has its own specification over its own variables; the other   *)
(* variables stay at their initial value.                                  *)
(***************************************************************************)
EXTENDS Integers, Sequences, FiniteSets, TLC

VARIABLES
    \* --- grouper ---
    pages,            \* the DebugPageData[] handed to createLogicalQuestions
    logicalQuestions, \* its return value
    grouped,          \* TRUE once createLogicalQuestions has returned
    previous,         \* what the call before the last returned, once it
                      \* has been called twice with the same array
    \* --- WorkerPool (globalWorkerPool) ---
    queue,            \* this.queue: the pending jobs (task ids), oldest first
    activeCount,      \* this.activeCount
    concurrency,      \* this._concurrency
    workerMap,        \* this.workerMap: worker -> busy, in insertion order;
                      \* this.workers has the same length
    handlers,         \* worker -> the job whose message handler listens on it (0: none)
    promises,         \* task -> state of the promise exec returned for it
    setWhileBusy,     \* history: concurrency was assigned while size > 0
    onIdle,           \* the promise of an onIdle() call, and how it came to resolve
    \* --- generateQuestionsFromRawPages (one call) ---
    genPc,            \* "idle" before the call, "running" while it awaits, "done"
    aborted,          \* signal.aborted
    results,          \* the local array results: tasks in the order they were pushed
    returned,         \* the value the call returned
    \* --- chunked store ---
    index,            \* object store "exams": exam id -> record
    details,          \* object store "exam_details": exam id -> record
    chunks,           \* object store "exam_chunks": chunk key -> dataUrl
    call,             \* the storage call that is between two of its transactions
    promise,          \* how the promise of the storage call that ran last stands
    removedCount,     \* the value cleanupHistoryItem returned last (-1: none yet)
    deleted,          \* history: per exam id, whether it was deleted with
                      \* nothing saved under it since, and whether the
                      \* delete removed chunks
    hydrated          \* the key and the value of the getChunkData call
                      \* answered last, and whether the one before it had
                      \* the same key; reset by a write transaction
VARIABLES
    \* --- overlapping saves ---
    pending           \* per caller, the saveExamResult call that has read the
                      \* history list and has not yet run its transaction
VARIABLES
    \* --- sequential generator (App.tsx) ---
    fileDetections,   \* the detections of one file in the order of the loops,
                      \* each with whether its crop produced a canvas
    cropIndex,        \* the detection the loop handles next, counted from 1
    fileItems         \* fileItems: per item the detection that created it and
                      \* the detections whose canvases were merged into it
VARIABLES
    \* --- canvas trimming ---
    buffer,           \* the pixels of the canvas handed to a trimming function
    box,              \* the box the function returned
    trimmedBy,        \* the function that was called ("none" before the call)
    \* --- normalizeBoxes ---
    boxes2d,          \* the argument of the call
    normalized        \* how the call ended: the value returned or the error thrown

groupVars == <<pages, logicalQuestions, grouped, previous>>
poolVars == <<queue, activeCount, concurrency, workerMap, handlers, promises, setWhileBusy, onIdle>>
genVars == <<genPc, aborted, results, returned>>
storeVars == <<index, details, chunks, call, promise, removedCount, deleted>>
readVars == <<hydrated>>
overlapVars == <<pending>>
mergeVars == <<fileDetections, cropIndex, fileItems>>
trimVars == <<buffer, box, trimmedBy>>
normVars == <<boxes2d, normalized>>
imageVars == <<trimVars, normVars>>
vars == <<groupVars, poolVars, genVars, storeVars, readVars, overlapVars, mergeVars, imageVars>>

(***************************************************************************)
(* Small helpers                                                           *)
(***************************************************************************)
Range(s) == {s[i] : i \in 1..Len(s)}

SeqsUpTo(S, n) == UNION {[1..k -> S] : k \in 0..n}

(***************************************************************************)
(* Bounds and input domains of the grouper                                 *)
(***************************************************************************)
MaxPages == 2
MaxDets == 2
FileNames == {"A", "B"}
PageNumbers == {1, 2}
CONTINUATION == "continuation"
DetectionIds == {CONTINUATION, "5"}

DebugPageData ==
    [fileName : FileNames, pageNumber : PageNumbers,
     detections : SeqsUpTo(DetectionIds, MaxDets)]

(***************************************************************************)
(* createLogicalQuestions                                                  *)
(* A page object is identified by its index in the input array; a part is  *)
(* [page |-> that index, indexInFile |-> idx] with idx counted from 0 as   *)
(* page.detections.entries() does.                                         *)
(***************************************************************************)

\* files: the keys of the Map, in order of first insertion
RECURSIVE FileKeys(_, _, _)
FileKeys(ps, i, acc) ==
    IF i > Len(ps) THEN acc
    ELSE FileKeys(ps, i + 1,
                  IF ps[i].fileName \in Range(acc) THEN acc
                  ELSE Append(acc, ps[i].fileName))

\* files.get(fileId): the pages (indexes) pushed for one file, in input order
RECURSIVE FilePages(_, _, _)
FilePages(ps, fileId, i) ==
    IF i > Len(ps) THEN <<>>
    ELSE IF ps[i].fileName = fileId
         THEN <<i>> \o FilePages(ps, fileId, i + 1)
         ELSE FilePages(ps, fileId, i + 1)

\* Array.prototype.sort((a,b) => a.pageNumber - b.pageNumber): a stable sort
RECURSIVE InsertByPageNumber(_, _, _)
InsertByPageNumber(ps, sorted, i) ==
    IF sorted = <<>> THEN <<i>>
    ELSE IF ps[Head(sorted)].pageNumber <= ps[i].pageNumber
         THEN <<Head(sorted)>> \o InsertByPageNumber(ps, Tail(sorted), i)
         ELSE <<i>> \o sorted

RECURSIVE SortByPageNumber(_, _)
SortByPageNumber(ps, idxs) ==
    IF idxs = <<>> THEN <<>>
    ELSE InsertByPageNumber(ps,
            SortByPageNumber(ps, SubSeq(idxs, 1, Len(idxs) - 1)),
            idxs[Len(idxs)])

NewPart(p, idx) == [page |-> p, indexInFile |-> idx]

\* Mutant: the current question is forgotten at every page boundary, so a
\* continuation at the top of a page never joins the question before it.
GroupDetection_PageLocal(ps, st, fileId, p, idx) ==
    LET det == ps[p].detections[idx + 1]
        cur == IF idx = 0 THEN 0 ELSE st.currentQ
        fresh(qid) == [id |-> qid, fileId |-> fileId, parts |-> <<NewPart(p, idx)>>]
    IN IF det = CONTINUATION /\ cur # 0
       THEN [currentQ |-> cur,
             lqs |-> [st.lqs EXCEPT ![cur].parts = Append(@, NewPart(p, idx))]]
       ELSE [currentQ |-> Len(st.lqs) + 1,
             lqs |-> Append(st.lqs,
                       fresh(IF det = CONTINUATION
                             THEN "cont_" \o ToString(ps[p].pageNumber) \o "_" \o ToString(idx)
                             ELSE det))]

\* Mutant: an orphan continuation is skipped instead of becoming a question.
GroupDetection_SkipOrphan(ps, st, fileId, p, idx) ==
    LET det == ps[p].detections[idx + 1]
        fresh(qid) == [id |-> qid, fileId |-> fileId, parts |-> <<NewPart(p, idx)>>]
    IN IF det = CONTINUATION
       THEN IF st.currentQ # 0
            THEN [currentQ |-> st.currentQ,
                  lqs |-> [st.lqs EXCEPT ![st.currentQ].parts = Append(@, NewPart(p, idx))]]
            ELSE st
       ELSE [currentQ |-> Len(st.lqs) + 1, lqs |-> Append(st.lqs, fresh(det))]

\* The body of the inner loop, for detection idx (0-based) of page p.
\* st.currentQ is the position in logicalQuestions of the object currentQ
\* refers to (0 for null); st.lqs is logicalQuestions.
GroupDetection(ps, st, fileId, p, idx) ==
    LET det == ps[p].detections[idx + 1]
        fresh(qid) == [id |-> qid, fileId |-> fileId, parts |-> <<NewPart(p, idx)>>]
    IN IF det = CONTINUATION
       THEN IF st.currentQ # 0
            THEN [currentQ |-> st.currentQ,
                  lqs |-> [st.lqs EXCEPT ![st.currentQ].parts = Append(@, NewPart(p, idx))]]
            ELSE [currentQ |-> Len(st.lqs) + 1,
                  lqs |-> Append(st.lqs,
                            fresh("cont_" \o ToString(ps[p].pageNumber) \o "_" \o ToString(idx)))]
       ELSE [currentQ |-> Len(st.lqs) + 1, lqs |-> Append(st.lqs, fresh(det))]

\* for (const [idx, det] of page.detections.entries())
RECURSIVE GroupPage(_, _, _, _, _)
GroupPage(ps, st, fileId, p, idx) ==
    IF idx >= Len(ps[p].detections) THEN st
    ELSE GroupPage(ps, GroupDetection(ps, st, fileId, p, idx), fileId, p, idx + 1)

\* for (const page of filePages)
RECURSIVE GroupFilePages(_, _, _, _)
GroupFilePages(ps, st, fileId, filePages) ==
    IF filePages = <<>> THEN st
    ELSE GroupFilePages(ps, GroupPage(ps, st, fileId, Head(filePages), 0),
                        fileId, Tail(filePages))

\* for (const [fileId, filePages] of files): sort, currentQ = null, scan
\* Mutant: currentQ is declared outside the loop over the files, so a file
\* starts with the last question of the file before it
RECURSIVE GroupFiles_NoReset(_, _, _)
GroupFiles_NoReset(ps, lqs, fileIds) ==
    IF fileIds = <<>> THEN lqs
    ELSE LET fileId == Head(fileIds)
             filePages == SortByPageNumber(ps, FilePages(ps, fileId, 1))
             st == GroupFilePages(ps, [currentQ |-> Len(lqs), lqs |-> lqs], fileId, filePages)
         IN GroupFiles_NoReset(ps, st.lqs, Tail(fileIds))

RECURSIVE GroupFiles(_, _, _)
GroupFiles(ps, lqs, fileIds) ==
    IF fileIds = <<>> THEN lqs
    ELSE LET fileId == Head(fileIds)
             filePages == SortByPageNumber(ps, FilePages(ps, fileId, 1))
             st == GroupFilePages(ps, [currentQ |-> 0, lqs |-> lqs], fileId, filePages)
         IN GroupFiles(ps, st.lqs, Tail(fileIds))

createLogicalQuestions(ps) == GroupFiles(ps, <<>>, FileKeys(ps, 1, <<>>))

\* no earlier call of createLogicalQuestions to compare the last one with
NotRun == [run |-> FALSE]

(***************************************************************************)
(* WorkerPool                                                              *)
(* Workers are numbered in creation order; workerMap[w] is TRUE when busy. *)
(* A job is the id of its task; handlers[w] is the job whose handler was   *)
(* added to worker w and not yet removed: the worker answers that job's    *)
(* message with success or failure.                                        *)
(***************************************************************************)
MaxTasks == 4
MaxConcurrency == 3
DefaultConcurrency == 4

Pool == [queue |-> queue, activeCount |-> activeCount, concurrency |-> concurrency,
         workerMap |-> workerMap, handlers |-> handlers]

SetPool(P) ==
    /\ queue' = P.queue
    /\ activeCount' = P.activeCount
    /\ concurrency' = P.concurrency
    /\ workerMap' = P.workerMap
    /\ handlers' = P.handlers

\* while (this.workers.length < this._concurrency) { new Worker; set(w, false) }
RECURSIVE EnsureWorkers(_)
EnsureWorkers(P) ==
    IF Len(P.workerMap) < P.concurrency
    THEN EnsureWorkers([P EXCEPT !.workerMap = Append(@, FALSE),
                                 !.handlers = Append(@, 0)])
    ELSE P

\* for (const [w, busy] of this.workerMap.entries()) if (!busy) return w
FirstFree(P) ==
    IF \E w \in 1..Len(P.workerMap) : ~P.workerMap[w]
    THEN CHOOSE w \in 1..Len(P.workerMap) :
            /\ ~P.workerMap[w]
            /\ \A v \in 1..(w - 1) : P.workerMap[v]
    ELSE 0

\* getFreeWorker: the pool after it, and the worker returned (0 for null)
getFreeWorker(P) ==
    LET Q == EnsureWorkers(P) IN [pool |-> Q, worker |-> FirstFree(Q)]

\* Mutant: the dispatch loop goes on while a job waits, whatever the count
MayDispatch_AnyFreeWorker(P) == Len(P.queue) > 0

\* Mutant: the dispatch loop admits one job too many (<= for <)
MayDispatch_OffByOne(P) == P.activeCount <= P.concurrency /\ Len(P.queue) > 0

\* the condition of the dispatch loop
MayDispatch(P) == P.activeCount < P.concurrency /\ Len(P.queue) > 0

\* Mutant: the worker is not marked busy when a job is sent to it
Dispatch_NotMarked(P, worker) ==
    [P EXCEPT !.queue = Tail(@),
              !.activeCount = @ + 1,
              !.handlers = [@ EXCEPT ![worker] = Head(P.queue)]]

\* one turn of the loop: shift the job, count it, mark the worker busy,
\* add the handler and post the message
Dispatch(P, worker) ==
    [P EXCEPT !.queue = Tail(@),
              !.activeCount = @ + 1,
              !.workerMap = [@ EXCEPT ![worker] = TRUE],
              !.handlers = [@ EXCEPT ![worker] = Head(P.queue)]]

RECURSIVE DispatchLoop(_)
DispatchLoop(P) ==
    IF MayDispatch(P)
    THEN LET g == getFreeWorker(P)
         IN IF g.worker = 0 THEN g.pool
            ELSE DispatchLoop(Dispatch(g.pool, g.worker))
    ELSE P

processQueue(P) == IF Len(P.queue) = 0 THEN P ELSE DispatchLoop(P)

\* the handler of worker w's message for its job, up to the resolve call
HandleMessage(P, w) ==
    [P EXCEPT !.activeCount = @ - 1,
              !.workerMap = [@ EXCEPT ![w] = FALSE],
              !.handlers = [@ EXCEPT ![w] = 0]]

PoolSize == Len(queue) + activeCount

InitPool ==
    /\ queue = <<>>
    /\ activeCount = 0
    /\ concurrency = DefaultConcurrency
    /\ workerMap = <<>>
    /\ handlers = <<>>
    /\ promises = <<>>
    /\ setWhileBusy = FALSE
    /\ onIdle = "none"

\* exec(task, settings): the task gets the next id
Exec ==
    /\ Len(promises) < MaxTasks
    /\ LET t == Len(promises) + 1
       IN /\ promises' = Append(promises, "pending")
          /\ SetPool(processQueue([Pool EXCEPT !.queue = Append(@, t)]))
    /\ UNCHANGED <<setWhileBusy, onIdle>>

\* Mutant: after a failure the handler does not look at the queue again
WorkerMessage_FailureStalls(w, success) ==
    /\ w \in 1..Len(handlers)
    /\ handlers[w] # 0
    /\ promises' = [promises EXCEPT ![handlers[w]] = IF success THEN "result" ELSE "null"]
    /\ SetPool(IF success THEN processQueue(HandleMessage(Pool, w)) ELSE HandleMessage(Pool, w))
    /\ UNCHANGED <<setWhileBusy, onIdle>>

\* worker w answers the message of its job; success is e.data.success
WorkerMessage(w, success) ==
    /\ w \in 1..Len(handlers)
    /\ handlers[w] # 0
    /\ promises' = [promises EXCEPT ![handlers[w]] = IF success THEN "result" ELSE "null"]
    /\ SetPool(processQueue(HandleMessage(Pool, w)))
    /\ UNCHANGED <<setWhileBusy, onIdle>>

\* Mutant: the setter stores the value and leaves the queue alone
SetConcurrency_NoDispatch(val) ==
    /\ SetPool([Pool EXCEPT !.concurrency = val])
    /\ setWhileBusy' = (setWhileBusy \/ PoolSize > 0)
    /\ UNCHANGED <<promises, onIdle>>

\* set concurrency(val)
SetConcurrency(val) ==
    /\ SetPool(processQueue([Pool EXCEPT !.concurrency = val]))
    /\ setWhileBusy' = (setWhileBusy \/ PoolSize > 0)
    /\ UNCHANGED <<promises, onIdle>>

\* clear()
Clear ==
    /\ queue # <<>>
    /\ queue' = <<>>
    /\ UNCHANGED <<activeCount, concurrency, workerMap, handlers, promises, setWhileBusy, onIdle>>

\* Mutant: onIdle looks at the queue only
IsIdle_QueueOnly(P) == Len(P.queue) = 0

\* this.queue.length === 0 && this.activeCount === 0
IsIdle(P) == Len(P.queue) = 0 /\ P.activeCount = 0

\* onIdle(): resolved at once when the pool is idle, else an interval is set
OnIdle ==
    /\ onIdle # "polling"
    /\ onIdle' = IF IsIdle(Pool) THEN "resolvedAtCall" ELSE "polling"
    /\ UNCHANGED <<queue, activeCount, concurrency, workerMap, handlers, promises, setWhileBusy>>

\* the interval callback of onIdle, every 100 ms
OnIdleCheck ==
    /\ onIdle = "polling"
    /\ onIdle' = IF IsIdle(Pool) THEN "resolvedByCheck" ELSE onIdle
    /\ UNCHANGED <<queue, activeCount, concurrency, workerMap, handlers, promises, setWhileBusy>>

(***************************************************************************)
(* generateQuestionsFromRawPages                                           *)
(* The call runs without suspension from the concurrency assignment to the *)
(* end of logicalQuestions.map: every mapper runs up to its await, so all  *)
(* exec calls happen in that one step. The task of logicalQuestions[k] is  *)
(* task k of the pool. A worker's answer resumes the mapper of its task,   *)
(* which pushes the result if there is one.                                *)
(***************************************************************************)
MaxGenPages == 2
GenPageData ==
    [fileName : FileNames, pageNumber : PageNumbers,
     detections : {<<"5">>, <<"5", CONTINUATION>>}]

InitGen ==
    /\ genPc = "idle"
    /\ aborted = FALSE
    /\ results = <<>>
    /\ returned = <<>>

\* logicalQuestions.map(async task => ... processLogicalQuestion(task) ...)
\* when the signal is not aborted: exec for each task, in order
RECURSIVE ExecAll(_, _, _)
ExecAll(P, k, n) ==
    IF k > n THEN P
    ELSE ExecAll(processQueue([P EXCEPT !.queue = Append(@, k)]), k + 1, n)

\* the call, up to await Promise.all(promises)
GenStart(c) ==
    /\ genPc = "idle"
    /\ LET P1 == processQueue([Pool EXCEPT !.concurrency = c])
           lqs == createLogicalQuestions(pages)
           n == Len(lqs)
       IN /\ logicalQuestions' = lqs
          /\ grouped' = TRUE
          /\ setWhileBusy' = (setWhileBusy \/ PoolSize > 0)
          /\ UNCHANGED onIdle
          /\ IF n = 0 \/ aborted
             THEN /\ SetPool(P1)
                  /\ promises' = [k \in 1..n |-> "null"]
                  /\ genPc' = "done"
             ELSE /\ SetPool(ExecAll(P1, 1, n))
                  /\ promises' = [k \in 1..n |-> "pending"]
                  /\ genPc' = "running"
    /\ UNCHANGED <<pages, previous, aborted, results, returned, storeVars, readVars, overlapVars, mergeVars, imageVars>>

\* Mutant: the mapper pushes a result for a failed task as well
PushResult_Always(res, task, success) == Append(res, task)

\* what the mapper does with the value its task's promise resolved with
PushResult(res, task, success) == IF success THEN Append(res, task) ELSE res

\* a worker answers; the mapper of its task resumes
GenWorkerMessage(w, success) ==
    /\ genPc = "running"
    /\ WorkerMessage(w, success)
    /\ results' = PushResult(results, handlers[w], success)
    /\ UNCHANGED <<groupVars, genPc, aborted, returned, storeVars, readVars, overlapVars, mergeVars, imageVars>>

\* await Promise.all(promises); return results
GenReturn ==
    /\ genPc = "running"
    /\ \A k \in 1..Len(promises) : promises[k] # "pending"
    /\ returned' = results
    /\ genPc' = "done"
    /\ UNCHANGED <<groupVars, poolVars, aborted, results, storeVars, readVars, overlapVars, mergeVars, imageVars>>

\* the caller aborts the signal
Abort ==
    /\ ~aborted
    /\ aborted' = TRUE
    /\ UNCHANGED <<groupVars, poolVars, genPc, results, returned, storeVars, readVars, overlapVars, mergeVars, imageVars>>

(***************************************************************************)
(* Chunked store (IndexedDB "MathSplitterDB")                              *)
(* Strings that take part in chunk keys are sequences of characters, so    *)
(* that getChunkKey is a concatenation and a key range is compared code    *)
(* unit by code unit, as IndexedDB compares string keys.                   *)
(***************************************************************************)
NoData == "undefined"                   \* the value undefined of a dataUrl
EmptyData == ""                         \* the empty string: falsy as well
Truthy(d) == d # NoData /\ d # EmptyData

MAXCHAR == "\\uffff"                    \* the single character U+FFFF
CodeUnit(c) ==
    CASE c = "#" -> 35  [] c = "1" -> 49  [] c = "2" -> 50  [] c = "3" -> 51
      [] c = "4" -> 52  [] c = "5" -> 53  [] c = "6" -> 54  [] c = "7" -> 55
      [] c = "8" -> 56  [] c = "9" -> 57  [] c = "0" -> 48  [] c = "_" -> 95
      [] c = "a" -> 97  [] c = "b" -> 98  [] c = "f" -> 102 [] c = "g" -> 103
      [] c = "i" -> 105 [] c = "o" -> 111 [] c = "p" -> 112 [] c = "q" -> 113
      [] c = "r" -> 114 [] c = MAXCHAR -> 65535

\* a <= b in the order of IndexedDB string keys
RECURSIVE StrLeq(_, _)
StrLeq(a, b) ==
    IF a = <<>> THEN TRUE
    ELSE IF b = <<>> THEN FALSE
    ELSE IF CodeUnit(Head(a)) < CodeUnit(Head(b)) THEN TRUE
    ELSE IF CodeUnit(Head(a)) > CodeUnit(Head(b)) THEN FALSE
    ELSE StrLeq(Tail(a), Tail(b))

IsPrefix(a, b) == Len(a) <= Len(b) /\ SubSeq(b, 1, Len(a)) = a

\* `${n}` for a non-negative integer
RECURSIVE NumberToString(_)
NumberToString(n) ==
    IF n < 10 THEN <<ToString(n)>>
    ELSE NumberToString(n \div 10) \o <<ToString(n % 10)>>

ORIG == <<"_", "o", "r", "i", "g">>

getChunkKey(examId, type, fileName, id) ==
    examId \o <<"#">> \o <<type>> \o <<"#">> \o fileName \o <<"#">> \o id

PageKey(examId, p) == getChunkKey(examId, "p", p.fileName, NumberToString(p.pageNumber))
QuestionKey(examId, q) == getChunkKey(examId, "q", q.fileName, q.id)
QuestionOrigKey(examId, q) == getChunkKey(examId, "q", q.fileName, q.id \o ORIG)

(* Input domains of the store *)
ExamIds == {<<"a", "1">>, <<"b", "2">>}     \* the values crypto.randomUUID() gives
ExamNames == {<<"f">>, <<"g">>}
Page(n, dets, url) == [pageNumber |-> n, detections |-> dets, dataUrl |-> url]
Question(id, url, orig) == [id |-> id, dataUrl |-> url, originalDataUrl |-> orig]
\* What a caller passes as (rawPages, questions), before the file name is
\* put in: pages out of order with one page seen twice, and two questions
\* whose ids differ by the suffix "_orig"; and what loadExamResult returns
\* after that save (the images undefined).
SaveInput ==
    {<< <<Page(2, 0, "d1"), Page(1, 0, "d1"), Page(1, 1, "d2")>>,
        <<Question(<<"1">>, "d1", "d2"), Question(<<"1">> \o ORIG, "d1", NoData)>> >>,
     << <<Page(1, 1, NoData), Page(2, 0, NoData)>>,
        <<Question(<<"1">>, NoData, NoData), Question(<<"1">> \o ORIG, NoData, NoData)>> >>}
QuestionInput == {inp[2] : inp \in SaveInput}
UpdatedPages == {1}
NewDetections == {2}

NoRead == [key |-> <<>>]                \* no getChunkData call answered yet
NoRecord == [none |-> TRUE]             \* the result undefined of store.get
NoCall == [op |-> "none"]
Callers == {1, 2}                       \* two calls of saveExamResult in flight
NoPending == [c \in Callers |-> NoCall]
Null == [null |-> TRUE]                 \* the result null of loadExamResult

OfFile(name, items) == [i \in 1..Len(items) |-> [fileName |-> name] @@ items[i]]

\* chunksStore.put(value, key)
Put(ch, value, key) ==
    [k \in DOMAIN ch \cup {key} |-> IF k = key THEN value ELSE ch[k]]

\* Mutant: the first page seen for a page number is kept
RECURSIVE MapOfPages_FirstWins(_, _)
MapOfPages_FirstWins(rawPages, m) ==
    IF rawPages = <<>> THEN m
    ELSE LET p == Head(rawPages)
         IN MapOfPages_FirstWins(Tail(rawPages),
               IF \E i \in 1..Len(m) : m[i].pageNumber = p.pageNumber THEN m
               ELSE Append(m, p))

\* new Map(rawPages.map(item => [item.pageNumber, item])): entries in order
\* of first insertion of the key, each with the last value set for it
RECURSIVE MapOfPages(_, _)
MapOfPages(rawPages, m) ==
    IF rawPages = <<>> THEN m
    ELSE LET p == Head(rawPages)
             at == {i \in 1..Len(m) : m[i].pageNumber = p.pageNumber}
         IN MapOfPages(Tail(rawPages),
                       IF at = {} THEN Append(m, p)
                       ELSE [i \in 1..Len(m) |-> IF i \in at THEN p ELSE m[i]])

\* sort((a, b) => a.pageNumber - b.pageNumber), stable
RECURSIVE InsertPage(_, _)
InsertPage(sorted, p) ==
    IF sorted = <<>> THEN <<p>>
    ELSE IF Head(sorted).pageNumber <= p.pageNumber
         THEN <<Head(sorted)>> \o InsertPage(Tail(sorted), p)
         ELSE <<p>> \o sorted

RECURSIVE SortPages(_)
SortPages(ps) ==
    IF ps = <<>> THEN <<>>
    ELSE InsertPage(SortPages(SubSeq(ps, 1, Len(ps) - 1)), ps[Len(ps)])

\* saveExamResult lines 62-64
UniquePages(rawPages) == SortPages(MapOfPages(rawPages, <<>>))

\* Mutant: page images are stored under the question kind
PutPageChunk_WrongKind(ch, id, p) ==
    IF Truthy(p.dataUrl)
    THEN Put(ch, p.dataUrl, getChunkKey(id, "q", p.fileName, NumberToString(p.pageNumber)))
    ELSE ch

\* Mutant: the page image is put also when the page has none
PutPageChunk_Always(ch, id, p) == Put(ch, p.dataUrl, PageKey(id, p))

\* saveExamResult lines 80-83
PutPageChunk(ch, id, p) ==
    IF Truthy(p.dataUrl) THEN Put(ch, p.dataUrl, PageKey(id, p)) ELSE ch

\* saveExamResult lines 93-100 (and the same lines of the update functions)
PutQuestionChunks(ch, id, q) ==
    LET c1 == IF Truthy(q.dataUrl) THEN Put(ch, q.dataUrl, QuestionKey(id, q)) ELSE ch
    IN IF Truthy(q.originalDataUrl)
       THEN Put(c1, q.originalDataUrl, QuestionOrigKey(id, q))
       ELSE c1

RECURSIVE PutPages(_, _, _)
PutPages(ch, id, ps) ==
    IF ps = <<>> THEN ch ELSE PutPages(PutPageChunk(ch, id, Head(ps)), id, Tail(ps))

RECURSIVE PutQuestions(_, _, _)
PutQuestions(ch, id, qs) ==
    IF qs = <<>> THEN ch ELSE PutQuestions(PutQuestionChunks(ch, id, Head(qs)), id, Tail(qs))

\* { ...p, dataUrl: undefined }; saved remembers the dataUrl that was passed
SkeletonPage(p) == [fileName |-> p.fileName, pageNumber |-> p.pageNumber,
                    detections |-> p.detections, dataUrl |-> NoData,
                    saved |-> p.dataUrl]
SkeletonQuestion(q) == [fileName |-> q.fileName, id |-> q.id,
                        dataUrl |-> NoData, originalDataUrl |-> NoData,
                        saved |-> q.dataUrl, savedOriginal |-> q.originalDataUrl]
SkeletonPages(ps) == [i \in 1..Len(ps) |-> SkeletonPage(ps[i])]
SkeletonQuestions(qs) == [i \in 1..Len(qs) |-> SkeletonQuestion(qs[i])]

DB == [index |-> index, details |-> details, chunks |-> chunks]

\* the writes of saveExamResult's transaction (lines 75-116)
SaveWrites(db, id, name, rawPages, questions) ==
    LET uniquePages == UniquePages(rawPages)
    IN [index |-> [db.index EXCEPT ![id] =
                      [id |-> id, name |-> name, pageCount |-> Len(uniquePages)]],
        details |-> [db.details EXCEPT ![id] =
                      [id |-> id, rawPages |-> SkeletonPages(uniquePages),
                       questions |-> SkeletonQuestions(questions)]],
        chunks |-> PutQuestions(PutPages(db.chunks, id, uniquePages), id, questions)]

\* Mutant: the range ends after the page chunks
ExamKeyRange_PagesOnly(id) == [lower |-> id \o <<"#">>, upper |-> id \o <<"#", "p", MAXCHAR>>]

\* Mutant: the range starts at the empty key and holds every exam
ExamKeyRange_AllExams(id) == [lower |-> <<>>, upper |-> id \o <<"#", MAXCHAR>>]

\* IDBKeyRange.bound(`${id}#`, `${id}#\uffff`)
ExamKeyRange(id) == [lower |-> id \o <<"#">>, upper |-> id \o <<"#", MAXCHAR>>]
InRange(key, range) == StrLeq(range.lower, key) /\ StrLeq(key, range.upper)

\* chunkStore.delete(keyRange)
DeleteRange(ch, range) ==
    [k \in {x \in DOMAIN ch : ~InRange(x, range)} |-> ch[k]]

\* Mutant: only the chunks are removed, the two records stay
DeleteWrites_ChunksOnly(db, id) ==
    [db EXCEPT !.chunks = DeleteRange(@, ExamKeyRange(id))]

\* the writes of deleteExamResult's transaction (lines 377-388), which are
\* also one turn of deleteExamResults' forEach (lines 404-407)
DeleteWrites(db, id) ==
    [index |-> [db.index EXCEPT ![id] = NoRecord],
     details |-> [db.details EXCEPT ![id] = NoRecord],
     chunks |-> DeleteRange(db.chunks, ExamKeyRange(id))]

RECURSIVE DeleteManyWrites(_, _)
DeleteManyWrites(db, ids) ==
    IF ids = <<>> THEN db
    ELSE DeleteManyWrites(DeleteWrites(db, Head(ids)), Tail(ids))

\* the writes of updateExamQuestionsOnly's transaction when the record exists
UpdateQuestionsWrites(db, id, questions) ==
    [db EXCEPT !.details[id].questions = SkeletonQuestions(questions),
               !.chunks = PutQuestions(@, id, questions)]

\* the writes of updatePageDetections' transaction: the first page with
\* that number gets the new detections, if the record and the page exist
UpdateDetectionsWrites(db, id, pageNumber, newDetections) ==
    IF db.details[id] = NoRecord THEN db
    ELSE LET rawPages == db.details[id].rawPages
             at == {i \in 1..Len(rawPages) : rawPages[i].pageNumber = pageNumber}
         IN IF at = {} THEN db
            ELSE LET idx == CHOOSE i \in at : \A j \in at : i <= j
                 IN [db EXCEPT !.details[id].rawPages[idx].detections = newDetections]

\* store.get(key) on the chunks store: undefined when the key is absent
Get(ch, key) == IF key \in DOMAIN ch THEN ch[key] ELSE NoData

\* getChunkData(key): request.result
getChunkData(key) == Get(chunks, key)

\* getPageImage, getQuestionImage, getQuestionOriginalImage: the key each
\* hands to getChunkData
getPageImage(examId, fileName, pageNumber) ==
    getChunkKey(examId, "p", fileName, NumberToString(pageNumber))
getQuestionImage(examId, fileName, questionId) ==
    getChunkKey(examId, "q", fileName, questionId)
getQuestionOriginalImage(examId, fileName, questionId) ==
    getChunkKey(examId, "q", fileName, questionId \o ORIG)

\* loadExamResult(id): checkDone with both requests answered
loadExamResult(id) ==
    IF index[id] # NoRecord /\ details[id] # NoRecord
    THEN [name |-> index[id].name,
          rawPages |-> IF "rawPages" \in DOMAIN details[id] THEN details[id].rawPages ELSE <<>>,
          questions |-> IF "questions" \in DOMAIN details[id] THEN details[id].questions ELSE <<>>]
    ELSE Null

\* getHistoryList().find(h => h.name === fileName): the ids it can give
FindByName(name) == {id \in ExamIds : index[id] # NoRecord /\ index[id].name = name}

\* ids no store holds anything for: what a new random UUID is
UnusedIds ==
    {id \in ExamIds :
        /\ index[id] = NoRecord
        /\ details[id] = NoRecord
        /\ ~\E k \in DOMAIN chunks : IsPrefix(id \o <<"#">>, k)}

\* how a readwrite transaction ends: it completes, a request fails (error
\* event at the transaction, then abort), or the commit fails (abort event
\* only). In the last two cases none of its writes is kept.
TxOutcomes == {"complete", "error", "abort"}

\* promise of a function that sets transaction.oncomplete and .onerror
SettledBy(outcome) ==
    CASE outcome = "complete" -> "resolved"
      [] outcome = "error" -> "rejected"
      [] outcome = "abort" -> "pending"

SetDB(db) ==
    /\ index' = db.index
    /\ details' = db.details
    /\ chunks' = db.chunks

EmptyDB == [index |-> [id \in ExamIds |-> NoRecord],
            details |-> [id \in ExamIds |-> NoRecord],
            chunks |-> <<>>]

InitStore ==
    /\ index = EmptyDB.index
    /\ details = EmptyDB.details
    /\ chunks = EmptyDB.chunks
    /\ call = NoCall
    /\ promise = "none"
    /\ removedCount = -1
    /\ hydrated = NoRead
    /\ pending = NoPending
    /\ deleted = [id \in ExamIds |-> "no"]

\* history kept at a committed delete of the exams ids
Deleted(ids, after) ==
    [id \in ExamIds |->
        IF id \notin ids THEN deleted[id]
        ELSE IF \E k \in DOMAIN chunks \ DOMAIN after.chunks : IsPrefix(id \o <<"#">>, k)
             THEN "chunks" ELSE "empty"]

\* Mutant: every save takes a new id, whether or not the name is known
SaveRead_AlwaysNewId(name) ==
    /\ call = NoCall
    /\ \E id \in UnusedIds : call' = [op |-> "saveExamResult", id |-> id, name |-> name]
    /\ UNCHANGED <<index, details, chunks, promise, deleted>>
    /\ UNCHANGED removedCount

\* saveExamResult up to the transaction: getHistoryList, find, id. The
\* other arguments are first read inside the transaction.
SaveRead(name) ==
    /\ call = NoCall
    /\ \E id \in (IF FindByName(name) # {} THEN FindByName(name) ELSE UnusedIds) :
          call' = [op |-> "saveExamResult", id |-> id, name |-> name]
    /\ UNCHANGED <<index, details, chunks, promise, deleted>>
    /\ UNCHANGED removedCount

\* saveExamResult's transaction
SaveCommit(rawPages, questions, outcome) ==
    /\ call.op = "saveExamResult"
    /\ IF outcome = "complete"
       THEN /\ SetDB(SaveWrites(DB, call.id, call.name, OfFile(call.name, rawPages),
                                OfFile(call.name, questions)))
            /\ deleted' = [deleted EXCEPT ![call.id] = "no"]
       ELSE UNCHANGED <<index, details, chunks, deleted>>
    /\ promise' = SettledBy(outcome)
    /\ call' = NoCall
    /\ UNCHANGED removedCount

\* deleteExamResult(id)
DeleteExamResult(id, outcome) ==
    /\ IF outcome = "complete"
       THEN /\ SetDB(DeleteWrites(DB, id))
            /\ deleted' = Deleted({id}, DeleteWrites(DB, id))
       ELSE UNCHANGED <<index, details, chunks, deleted>>
    /\ promise' = SettledBy(outcome)
    /\ UNCHANGED call
    /\ UNCHANGED removedCount

\* deleteExamResults(ids)
DeleteExamResults(ids, outcome) ==
    /\ IF outcome = "complete"
       THEN /\ SetDB(DeleteManyWrites(DB, ids))
            /\ deleted' = Deleted(Range(ids), DeleteManyWrites(DB, ids))
       ELSE UNCHANGED <<index, details, chunks, deleted>>
    /\ promise' = SettledBy(outcome)
    /\ UNCHANGED call
    /\ UNCHANGED removedCount

\* updateExamQuestionsOnly(id, questions). It rejects when the get request
\* fails. Without a record it resolves at once. With one it resolves on
\* complete, and no handler is set for a failing put or a failing commit.
UpdateExamQuestionsOnly(id, questions, outcome) ==
    /\ IF outcome = "complete" /\ details[id] # NoRecord
       THEN SetDB(UpdateQuestionsWrites(DB, id, questions))
       ELSE UNCHANGED <<index, details, chunks>>
    /\ promise' \in CASE outcome = "complete" -> {"resolved"}
                     [] outcome = "error" ->
                          IF details[id] = NoRecord THEN {"rejected"}
                          ELSE {"rejected", "pending"}
                     [] outcome = "abort" ->
                          IF details[id] = NoRecord THEN {"resolved"}
                          ELSE {"pending"}
    /\ deleted' = IF outcome = "complete" /\ details[id] # NoRecord
                  THEN [deleted EXCEPT ![id] = "no"] ELSE deleted
    /\ UNCHANGED call
    /\ UNCHANGED removedCount

\* updatePageDetections up to the transaction: getHistoryList, find
UpdateDetectionsRead(name) ==
    /\ call = NoCall
    /\ IF FindByName(name) = {}
       THEN /\ promise' = "resolved"
            /\ UNCHANGED call
       ELSE /\ \E id \in FindByName(name) :
                  call' = [op |-> "updatePageDetections", id |-> id]
            /\ UNCHANGED promise
    /\ UNCHANGED <<index, details, chunks, deleted>>
    /\ UNCHANGED removedCount

\* updatePageDetections' transaction
UpdateDetectionsCommit(pageNumber, newDetections, outcome) ==
    /\ call.op = "updatePageDetections"
    /\ IF outcome = "complete"
       THEN SetDB(UpdateDetectionsWrites(DB, call.id, pageNumber, newDetections))
       ELSE UNCHANGED <<index, details, chunks>>
    /\ promise' = SettledBy(outcome)
    /\ call' = NoCall
    /\ UNCHANGED deleted
    /\ UNCHANGED removedCount

\* the object stores of the database
STORE_INDEX == "exams"
STORE_DETAILS == "exam_details"
STORE_CHUNKS == "exam_chunks"

\* db.transaction([STORE_INDEX, STORE_DETAILS], "readwrite") of
\* updatePageDetectionsAndQuestions (line 221)
UpdateBothScope == {STORE_INDEX, STORE_DETAILS}

\* the writes updatePageDetectionsAndQuestions asks for (lines 231-257)
UpdateBothWrites(db, id, pageNumber, newDetections, questions) ==
    UpdateQuestionsWrites(UpdateDetectionsWrites(db, id, pageNumber, newDetections),
                          id, questions)

\* updatePageDetectionsAndQuestions up to the transaction (lines 205-207)
UpdateBothRead(name) ==
    /\ call = NoCall
    /\ IF FindByName(name) = {}
       THEN /\ promise' = "resolved"
            /\ UNCHANGED call
       ELSE /\ \E id \in FindByName(name) :
                  call' = [op |-> "updatePageDetectionsAndQuestions", id |-> id, name |-> name]
            /\ UNCHANGED promise
    /\ UNCHANGED <<index, details, chunks, deleted>>
    /\ UNCHANGED removedCount

\* updatePageDetectionsAndQuestions' transaction. Without a record the
\* success handler of the get request resolves and returns. With one, it
\* calls transaction.objectStore(STORE_CHUNKS) (line 246): for a store
\* outside the scope of the transaction that call throws NotFoundError out
\* of the handler, before any put and before oncomplete and onerror are
\* set, and the exception aborts the transaction. No handler is set for a
\* failing get request either.
UpdateBothCommit(pageNumber, newDetections, questions, outcome) ==
    /\ call.op = "updatePageDetectionsAndQuestions"
    /\ LET found == details[call.id] # NoRecord
           thrown == found /\ STORE_CHUNKS \notin UpdateBothScope
           written == outcome = "complete" /\ found /\ ~thrown
       IN /\ IF written
             THEN SetDB(UpdateBothWrites(DB, call.id, pageNumber, newDetections,
                                         OfFile(call.name, questions)))
             ELSE UNCHANGED <<index, details, chunks>>
          /\ promise' \in IF thrown THEN {"pending"}
                          ELSE CASE outcome = "complete" -> {"resolved"}
                                 [] outcome = "error" ->
                                      IF found THEN {"rejected", "pending"} ELSE {"pending"}
                                 [] outcome = "abort" ->
                                      IF found THEN {"pending"} ELSE {"resolved"}
          /\ deleted' = IF written THEN [deleted EXCEPT ![call.id] = "no"] ELSE deleted
    /\ call' = NoCall
    /\ UNCHANGED removedCount

\* Mutant: the first page seen for a page number is kept, whatever the
\* later ones detect
RECURSIVE CleanupMap_KeepFirst(_, _)
CleanupMap_KeepFirst(rawPages, m) ==
    IF rawPages = <<>> THEN m
    ELSE LET p == Head(rawPages)
         IN CleanupMap_KeepFirst(Tail(rawPages),
               IF \E i \in 1..Len(m) : m[i].pageNumber = p.pageNumber THEN m
               ELSE Append(m, p))

\* kept page per page number, as cleanupHistoryItem's forEach picks it
RECURSIVE CleanupMap(_, _)
CleanupMap(rawPages, m) ==
    IF rawPages = <<>> THEN m
    ELSE LET p == Head(rawPages)
             at == {i \in 1..Len(m) : m[i].pageNumber = p.pageNumber}
         IN CleanupMap(Tail(rawPages),
               IF at = {} THEN Append(m, p)
               ELSE [i \in 1..Len(m) |->
                       IF i \in at /\ p.detections > m[i].detections THEN p ELSE m[i]])

CleanupPages(rawPages) == SortPages(CleanupMap(rawPages, <<>>))

\* Mutant: the chunk is taken out of the store when it is read
ReadChunk_Consume(key) ==
    /\ hydrated' = [key |-> key, data |-> getChunkData(key),
                    repeated |-> hydrated.key = key]
    /\ chunks' = [k \in DOMAIN chunks \ {key} |-> chunks[k]]
    /\ UNCHANGED <<index, details, call, promise, removedCount, deleted>>

\* A getChunkData(key) call: one readonly transaction on the chunks store,
\* resolved with request.result
ReadChunk(key) ==
    /\ hydrated' = [key |-> key, data |-> getChunkData(key),
                    repeated |-> hydrated.key = key]
    /\ UNCHANGED storeVars

\* cleanupHistoryItem up to its second transaction: it returns 0 without
\* one when there is no record or no duplicate page
CleanupRead(id) ==
    /\ call = NoCall
    /\ IF details[id] = NoRecord
          \/ Len(CleanupPages(details[id].rawPages)) = Len(details[id].rawPages)
       THEN /\ promise' = "resolved"
            /\ removedCount' = 0
            /\ UNCHANGED call
       ELSE /\ call' = [op |-> "cleanupHistoryItem", id |-> id, details |-> details[id]]
            /\ UNCHANGED <<promise, removedCount>>
    /\ UNCHANGED <<index, details, chunks, deleted>>

\* cleanupHistoryItem's second transaction: the record read before, with
\* the deduplicated pages, is put back; pageCount follows if meta exists
CleanupWrite(outcome) ==
    /\ call.op = "cleanupHistoryItem"
    /\ LET uniquePages == CleanupPages(call.details.rawPages)
       IN IF outcome = "complete"
          THEN /\ details' = [details EXCEPT ![call.id] =
                                 [call.details EXCEPT !.rawPages = uniquePages]]
               /\ index' = IF index[call.id] = NoRecord THEN index
                           ELSE [index EXCEPT ![call.id].pageCount = Len(uniquePages)]
               /\ UNCHANGED chunks
          ELSE UNCHANGED <<index, details, chunks>>
    /\ promise' = SettledBy(outcome)
    /\ removedCount' = IF outcome = "complete"
                       THEN Len(call.details.rawPages) - Len(CleanupPages(call.details.rawPages))
                       ELSE removedCount
    /\ call' = NoCall
    /\ UNCHANGED deleted

(***************************************************************************)
(* Overlapping saves                                                       *)
(* saveExamResult awaits openDB and getHistoryList before it opens its     *)
(* transaction, so a second call can read the history list before the      *)
(* first one commits.                                                      *)
(***************************************************************************)
\* the ids that the calls in flight settled on; crypto.randomUUID returns
\* none of them again
PendingIds == {pending[c].id : c \in {d \in Callers : pending[d] # NoCall}}

\* saveExamResult of caller c up to the transaction (lines 55-59)
OverlapSaveRead(c, name) ==
    /\ pending[c] = NoCall
    /\ \E id \in (IF FindByName(name) # {} THEN FindByName(name)
                  ELSE UnusedIds \ PendingIds) :
          pending' = [pending EXCEPT ![c] = [op |-> "saveExamResult", id |-> id, name |-> name]]
    /\ UNCHANGED storeVars

\* the transaction of caller c's saveExamResult (lines 66-119)
OverlapSaveCommit(c, rawPages, questions, outcome) ==
    /\ pending[c] # NoCall
    /\ IF outcome = "complete"
       THEN /\ SetDB(SaveWrites(DB, pending[c].id, pending[c].name,
                                OfFile(pending[c].name, rawPages),
                                OfFile(pending[c].name, questions)))
            /\ deleted' = [deleted EXCEPT ![pending[c].id] = "no"]
       ELSE UNCHANGED <<index, details, chunks, deleted>>
    /\ promise' = SettledBy(outcome)
    /\ pending' = [pending EXCEPT ![c] = NoCall]
    /\ UNCHANGED <<call, removedCount>>

(***************************************************************************)
(* Canvas trimming                                                         *)
(* A buffer is [w, h, data]: data[i] is the pixel of index i = y * w + x   *)
(* of ctx.getImageData(0, 0, w, h), with its channels r, g, b, a.          *)
(***************************************************************************)
MaxSide == 2
PeelDim == 7

Paper == [r |-> 255, g |-> 255, b |-> 255, a |-> 255]
Ink   == [r |-> 0, g |-> 0, b |-> 0, a |-> 255]
Faint == [r |-> 0, g |-> 0, b |-> 0, a |-> 5]     \* nearly transparent black
Pixels == {Paper, Ink, Faint}

\* every buffer of the small sizes
SmallBuffers ==
    UNION {{[w |-> w, h |-> h, data |-> d] : d \in [0..(w * h - 1) -> Pixels]} :
           <<w, h>> \in (1..MaxSide) \X (1..MaxSide)}

\* buffers whose 15% is a whole row: the ink is where an inked row meets an
\* inked column, so that every choice of inked rows and columns occurs
PeelBuffers ==
    {[w |-> PeelDim, h |-> PeelDim,
      data |-> [i \in 0..(PeelDim * PeelDim - 1) |->
                  IF (i \div PeelDim) \in R /\ (i % PeelDim) \in C THEN Ink ELSE Paper]] :
     <<R, C>> \in (SUBSET (0..(PeelDim - 1))) \X (SUBSET (0..(PeelDim - 1)))}

Buffers == SmallBuffers \cup PeelBuffers

NoBox == [x |-> -1, y |-> -1, w |-> -1, h |-> -1]
Max(a, b) == IF a >= b THEN a ELSE b

\* the ink tests of the three functions
PeelInk(px) == px.a > 10 /\ (px.r < 220 \/ px.g < 220 \/ px.b < 220)
SharedInk(px) == px.a > 0 /\ (px.r < 240 \/ px.g < 240 \/ px.b < 240)
isInkPixel(px) == IF px.a < 10 THEN FALSE ELSE px.r < 242 \/ px.g < 242 \/ px.b < 242

\* the test the function named fn makes of a pixel
HasInk(fn, px) ==
    CASE fn = "getTrimmedBounds" -> PeelInk(px)
      [] fn = "trimWhitespace" -> isInkPixel(px)
      [] fn = "sharedTrimWhitespace" -> SharedInk(px)

rowHasInk(buf, y, fn) == \E x \in 0..(buf.w - 1) : HasInk(fn, buf.data[y * buf.w + x])
colHasInk(buf, x, yStart, yEnd, fn) ==
    \E y \in yStart..yEnd : HasInk(fn, buf.data[y * buf.w + x])

(* getTrimmedBounds: the four bounded peeling loops *)
SAFETY(dim) == (dim * 15) \div 100      \* Math.floor(dim * 0.15)

RECURSIVE PeelTop(_, _)
PeelTop(buf, top) ==
    IF top < SAFETY(buf.h) /\ rowHasInk(buf, top, "getTrimmedBounds")
    THEN PeelTop(buf, top + 1) ELSE top

RECURSIVE PeelBottom(_, _, _)
PeelBottom(buf, top, bottom) ==
    IF bottom > buf.h - SAFETY(buf.h) /\ bottom > top /\ rowHasInk(buf, bottom - 1, "getTrimmedBounds")
    THEN PeelBottom(buf, top, bottom - 1) ELSE bottom

RECURSIVE PeelLeft(_, _)
PeelLeft(buf, left) ==
    IF left < SAFETY(buf.w) /\ colHasInk(buf, left, 0, buf.h - 1, "getTrimmedBounds")
    THEN PeelLeft(buf, left + 1) ELSE left

\* Mutant: the right edge is peeled while ink goes on, with no safety limit
RECURSIVE PeelRight_NoSafety(_, _, _)
PeelRight_NoSafety(buf, left, right) ==
    IF right > left /\ colHasInk(buf, right - 1, 0, buf.h - 1, "getTrimmedBounds")
    THEN PeelRight_NoSafety(buf, left, right - 1) ELSE right

RECURSIVE PeelRight(_, _, _)
PeelRight(buf, left, right) ==
    IF right > buf.w - SAFETY(buf.w) /\ right > left
       /\ colHasInk(buf, right - 1, 0, buf.h - 1, "getTrimmedBounds")
    THEN PeelRight(buf, left, right - 1) ELSE right

getTrimmedBounds(buf) ==
    LET top == PeelTop(buf, 0)
        bottom == PeelBottom(buf, top, buf.h)
        left == PeelLeft(buf, 0)
        right == PeelRight(buf, left, buf.w)
    IN [x |-> left, y |-> top, w |-> Max(0, right - left), h |-> Max(0, bottom - top)]

(* trimWhitespace of the canvas utilities: exclusive bottom and right *)
RECURSIVE ScanTop(_, _, _)
ScanTop(buf, top, fn) ==
    IF top < buf.h /\ ~rowHasInk(buf, top, fn) THEN ScanTop(buf, top + 1, fn) ELSE top

RECURSIVE ScanBottom(_, _, _)
ScanBottom(buf, top, bottom) ==
    IF bottom > top /\ ~rowHasInk(buf, bottom - 1, "trimWhitespace")
    THEN ScanBottom(buf, top, bottom - 1) ELSE bottom

RECURSIVE ScanLeft(_, _, _, _, _)
ScanLeft(buf, left, yStart, yEnd, fn) ==
    IF left < buf.w /\ ~colHasInk(buf, left, yStart, yEnd, fn)
    THEN ScanLeft(buf, left + 1, yStart, yEnd, fn) ELSE left

\* Mutant: right is decremented before the column is tested (do-while), so
\* the last column goes even when it has ink
RECURSIVE ScanRight_DropsFirst(_, _, _)
ScanRight_DropsFirst(buf, left, right) ==
    IF right > left /\ (right = buf.w \/ ~colHasInk(buf, right - 1, 0, buf.h - 1, "trimWhitespace"))
    THEN ScanRight_DropsFirst(buf, left, right - 1) ELSE right

RECURSIVE ScanRight(_, _, _)
ScanRight(buf, left, right) ==
    IF right > left /\ ~colHasInk(buf, right - 1, 0, buf.h - 1, "trimWhitespace")
    THEN ScanRight(buf, left, right - 1) ELSE right

trimWhitespace(buf) ==
    LET top == ScanTop(buf, 0, "trimWhitespace")
        bottom == ScanBottom(buf, top, buf.h)
        left == ScanLeft(buf, 0, 0, buf.h - 1, "trimWhitespace")
        right == ScanRight(buf, left, buf.w)
    IN [x |-> left, y |-> top, w |-> Max(0, right - left), h |-> Max(0, bottom - top)]

(* trimWhitespace of the shared canvas logic: inclusive bottom and right,  *)
(* columns scanned between top and bottom only, the empty image returned   *)
(* whole                                                                   *)
RECURSIVE SharedScanBottom(_, _, _)
SharedScanBottom(buf, top, bottom) ==
    IF bottom > top /\ ~rowHasInk(buf, bottom, "sharedTrimWhitespace")
    THEN SharedScanBottom(buf, top, bottom - 1) ELSE bottom

RECURSIVE SharedScanRight(_, _, _, _, _)
SharedScanRight(buf, left, right, top, bottom) ==
    IF right > left /\ ~colHasInk(buf, right, top, bottom, "sharedTrimWhitespace")
    THEN SharedScanRight(buf, left, right - 1, top, bottom) ELSE right

sharedTrimWhitespace(buf) ==
    LET top == ScanTop(buf, 0, "sharedTrimWhitespace")
    IN IF top = buf.h THEN [x |-> 0, y |-> 0, w |-> buf.w, h |-> buf.h]
       ELSE LET bottom == SharedScanBottom(buf, top, buf.h - 1)
                left == ScanLeft(buf, 0, top, bottom, "sharedTrimWhitespace")
                right == SharedScanRight(buf, left, buf.w - 1, top, bottom)
            IN [x |-> left, y |-> top,
                w |-> Max(1, right - left + 1), h |-> Max(1, bottom - top + 1)]

TrimFunctions == {"getTrimmedBounds", "trimWhitespace", "sharedTrimWhitespace"}

InitTrim ==
    /\ box = NoBox
    /\ trimmedBy = "none"

\* one call of a trimming function on the buffer
Trim(fn) ==
    /\ trimmedBy = "none"
    /\ box' = CASE fn = "getTrimmedBounds" -> getTrimmedBounds(buffer)
                [] fn = "trimWhitespace" -> trimWhitespace(buffer)
                [] fn = "sharedTrimWhitespace" -> sharedTrimWhitespace(buffer)
    /\ trimmedBy' = fn
    /\ UNCHANGED buffer

(***************************************************************************)
(* normalizeBoxes                                                          *)
(* A JavaScript value is a record tagged with its type: t is "number",     *)
(* "string", "object", "undefined" or "array", an array carrying the       *)
(* sequence of its elements in items.                                      *)
(***************************************************************************)
MaxBoxes == 2

Num(n) == [t |-> "number", n |-> n]
Str == [t |-> "string"]
Obj == [t |-> "object"]
Undefined == [t |-> "undefined"]
Arr(elems) == [t |-> "array", items |-> elems]

Coordinates == {Num(0), Num(500)}
\* [ymin, xmin, ymax, xmax]
Rectangles == {Arr(<<c[1], c[2], Num(1000), Num(1000)>>) : c \in Coordinates \X Coordinates}
\* what the detector may put first in boxes_2d
Elements == Rectangles \cup {Num(0), Str, Obj, Arr(<<>>), Arr(<<Num(0), Num(500)>>), Arr(<<Str>>)}

BoxInputs ==
    {Arr(s) : s \in SeqsUpTo(Elements, MaxBoxes)} \cup Rectangles \cup {Undefined}

Array_isArray(x) == x.t = "array"

\* boxes2d[0]: a TypeError on undefined, undefined past the end of an array
First(x) ==
    IF x.t = "array" /\ Len(x.items) > 0 THEN x.items[1] ELSE Undefined

\* Mutant: the single rectangle is returned as it is, not in a list
normalizeBoxes_NoWrap(x) ==
    IF x.t = "undefined" THEN [throws |-> "TypeError"]
    ELSE [returns |-> x]

normalizeBoxes(x) ==
    IF x.t = "undefined" THEN [throws |-> "TypeError"]
    ELSE IF Array_isArray(First(x)) THEN [returns |-> x]
    ELSE [returns |-> Arr(<<x>>)]

NotCalled == [called |-> FALSE]

InitNorm ==
    /\ normalized = NotCalled

\* one call normalizeBoxes(detection.boxes_2d)
Normalize ==
    /\ normalized = NotCalled
    /\ normalized' = normalizeBoxes(boxes2d)
    /\ UNCHANGED boxes2d

(***************************************************************************)
(* Sequential generator (App.tsx generateQuestionsFromRawPages)            *)
(* The loops over the pages of one file and over the detections of a page  *)
(* handle the detections one after the other, each after an await. The     *)
(* canvas of an item is kept as the detections it is made of. The runs     *)
(* modelled are those whose signal is not aborted.                         *)
(***************************************************************************)
MaxCrops == 3

\* a detection, and whether constructQuestionCanvas returned a canvas for it
CropResults == [id : DetectionIds \cup {"6"}, canvas : BOOLEAN]

\* lines 422-444, for the detection d handled as the n-th of the file
MergeOrPush(items, d, n) ==
    IF ~d.canvas THEN items
    ELSE IF d.id = CONTINUATION /\ Len(items) > 0
         THEN [items EXCEPT ![Len(items)].merged = Append(@, n)]
         ELSE Append(items, [id |-> d.id, created |-> n, merged |-> <<>>])

\* const fileItems = [] (line 410)
InitMerge ==
    /\ cropIndex = 1
    /\ fileItems = <<>>

\* one turn of the loop over the detections (lines 417-446)
CropNext ==
    /\ cropIndex <= Len(fileDetections)
    /\ fileItems' = MergeOrPush(fileItems, fileDetections[cropIndex], cropIndex)
    /\ cropIndex' = cropIndex + 1
    /\ UNCHANGED fileDetections

InitImage ==
    /\ buffer = [w |-> 1, h |-> 1, data |-> [i \in {0} |-> Paper]]
    /\ InitTrim
    /\ boxes2d = Undefined
    /\ InitNorm
    /\ fileDetections = <<>>
    /\ InitMerge

(***************************************************************************)
(* Specification of the grouper: any input, one call                       *)
(***************************************************************************)
InitGroup ==
    /\ pages \in SeqsUpTo(DebugPageData, MaxPages)
    /\ logicalQuestions = <<>>
    /\ grouped = FALSE
    /\ previous = NotRun
    /\ InitPool
    /\ InitGen
    /\ InitImage
    /\ InitStore

\* Mutant: the caller's array is sorted by page number in place, instead
\* of the per-file arrays built from it
Group_SortsInput ==
    /\ ~previous.run
    /\ logicalQuestions' = createLogicalQuestions(pages)
    /\ previous' = IF grouped THEN [run |-> TRUE, result |-> logicalQuestions] ELSE previous
    /\ grouped' = TRUE
    /\ pages' = [i \in 1..Len(pages) |->
                   pages[SortByPageNumber(pages, [k \in 1..Len(pages) |-> k])[i]]]
    /\ UNCHANGED <<poolVars, genVars, storeVars, readVars, overlapVars, mergeVars, imageVars>>

\* A call of createLogicalQuestions(pages); the caller may call it again
\* with the same array, which the function reads and never writes
Group ==
    /\ ~previous.run
    /\ logicalQuestions' = createLogicalQuestions(pages)
    /\ previous' = IF grouped THEN [run |-> TRUE, result |-> logicalQuestions] ELSE previous
    /\ grouped' = TRUE
    /\ UNCHANGED <<pages, poolVars, genVars, storeVars, readVars, overlapVars, mergeVars, imageVars>>

NextGroup == Group

SpecGroup == InitGroup /\ [][NextGroup]_vars

(***************************************************************************)
(* Specification of the pool: callers submit tasks, assign the concurrency *)
(* (the UI offers 1..10) and clear the queue; workers answer in any order. *)
(***************************************************************************)
InitPoolSpec ==
    /\ pages = <<>>
    /\ logicalQuestions = <<>>
    /\ grouped = FALSE
    /\ previous = NotRun
    /\ InitPool
    /\ InitGen
    /\ InitImage
    /\ InitStore

NextPool ==
    \/ Exec /\ UNCHANGED <<groupVars, genVars, storeVars, readVars, overlapVars, mergeVars, imageVars>>
    \/ \E w \in 1..Len(handlers), success \in BOOLEAN :
          WorkerMessage(w, success) /\ UNCHANGED <<groupVars, genVars, storeVars, readVars, overlapVars, mergeVars, imageVars>>
    \/ \E val \in 1..MaxConcurrency : SetConcurrency(val) /\ UNCHANGED <<groupVars, genVars, storeVars, readVars, overlapVars, mergeVars, imageVars>>
    \/ Clear /\ UNCHANGED <<groupVars, genVars, storeVars, readVars, overlapVars, mergeVars, imageVars>>
    \/ OnIdle /\ UNCHANGED <<groupVars, genVars, storeVars, readVars, overlapVars, mergeVars, imageVars>>
    \/ OnIdleCheck /\ UNCHANGED <<groupVars, genVars, storeVars, readVars, overlapVars, mergeVars, imageVars>>

SpecPool == InitPoolSpec /\ [][NextPool]_vars

(***************************************************************************)
(* Specification of one generateQuestionsFromRawPages call on a fresh pool *)
(***************************************************************************)
InitGenSpec ==
    /\ pages \in SeqsUpTo(GenPageData, MaxGenPages)
    /\ logicalQuestions = <<>>
    /\ grouped = FALSE
    /\ previous = NotRun
    /\ InitPool
    /\ InitGen
    /\ InitImage
    /\ InitStore

NextGen ==
    \/ \E c \in 1..MaxConcurrency : GenStart(c)
    \/ \E w \in 1..Len(handlers), success \in BOOLEAN : GenWorkerMessage(w, success)
    \/ GenReturn
    \/ Abort

SpecGen == InitGenSpec /\ [][NextGen]_vars

(***************************************************************************)
(* Specification of the store. The database outlives the page: it starts   *)
(* empty or as an earlier version of the application left it, with an      *)
(* exam that has its Index record only, or whose Details record lists one  *)
(* page twice (saves did not deduplicate). One call at a time may be       *)
(* between its transactions while single-transaction calls run.            *)
(***************************************************************************)
otherVars == <<groupVars, poolVars, genVars, readVars, overlapVars, mergeVars, imageVars>>

LegacyId == <<"a", "1">>
LegacyName == <<"f">>
LegacyPage(n, dets) ==
    [fileName |-> LegacyName, pageNumber |-> n, detections |-> dets,
     dataUrl |-> NoData, saved |-> NoData]
LegacyDetails ==
    {NoRecord,
     [id |-> LegacyId,
      rawPages |-> <<LegacyPage(2, 0), LegacyPage(1, 0), LegacyPage(1, 1)>>,
      questions |-> <<>>]}
LegacyDB ==
    {[EmptyDB EXCEPT !.index[LegacyId] = [id |-> LegacyId, name |-> LegacyName, pageCount |-> 3],
                     !.details[LegacyId] = d] : d \in LegacyDetails}

InitStoreSpec ==
    /\ pages = <<>>
    /\ logicalQuestions = <<>>
    /\ grouped = FALSE
    /\ previous = NotRun
    /\ InitPool
    /\ InitGen
    /\ InitImage
    /\ \E db \in {EmptyDB} \cup LegacyDB :
          /\ index = db.index
          /\ details = db.details
          /\ chunks = db.chunks
    /\ call = NoCall
    /\ promise = "none"
    /\ removedCount = -1
    /\ hydrated = NoRead
    /\ pending = NoPending
    /\ deleted = [id \in ExamIds |-> "no"]

StoreCalls ==
    \/ \E name \in ExamNames : SaveRead(name)
    \/ \E inp \in SaveInput, outcome \in TxOutcomes : SaveCommit(inp[1], inp[2], outcome)
    \/ \E id \in ExamIds, outcome \in TxOutcomes : DeleteExamResult(id, outcome)
    \/ \E ids \in SeqsUpTo(ExamIds, Cardinality(ExamIds)), outcome \in TxOutcomes :
          DeleteExamResults(ids, outcome)
    \/ \E id \in ExamIds, name \in ExamNames, outcome \in TxOutcomes :
          /\ (IF index[id] = NoRecord THEN TRUE ELSE index[id].name = name)
          /\ \E qs \in QuestionInput : UpdateExamQuestionsOnly(id, OfFile(name, qs), outcome)
    \/ \E name \in ExamNames : UpdateDetectionsRead(name)
    \/ \E pn \in UpdatedPages, nd \in NewDetections, outcome \in TxOutcomes :
          UpdateDetectionsCommit(pn, nd, outcome)
    \/ \E id \in ExamIds : CleanupRead(id)
    \/ \E outcome \in TxOutcomes : CleanupWrite(outcome)

NextStore == StoreCalls /\ UNCHANGED otherVars

SpecStore == InitStoreSpec /\ [][NextStore]_vars

(***************************************************************************)
(* Properties of the grouper                                               *)
(* The encounter order is stated on its own, not through the sort above:   *)
(* within a file, by page number, then by position of the page in the      *)
(* input, then by position of the detection in the page.                   *)
(***************************************************************************)
InputParts ==
    UNION {{NewPart(p, idx) : idx \in 0..(Len(pages[p].detections) - 1)} : p \in 1..Len(pages)}
DetOf(a) == pages[a.page].detections[a.indexInFile + 1]
FileOf(a) == pages[a.page].fileName
PageNumberOf(a) == pages[a.page].pageNumber

Precedes(a, b) ==
    /\ FileOf(a) = FileOf(b)
    /\ \/ PageNumberOf(a) < PageNumberOf(b)
       \/ PageNumberOf(a) = PageNumberOf(b) /\ a.page < b.page
       \/ a.page = b.page /\ a.indexInFile < b.indexInFile

\* the continuations that follow the real detection a before the next real one
RunAfter(a) ==
    {b \in InputParts :
        /\ Precedes(a, b)
        /\ DetOf(b) = CONTINUATION
        /\ ~\E c \in InputParts :
              Precedes(a, c) /\ Precedes(c, b) /\ DetOf(c) # CONTINUATION}

IsOrdered(parts) ==
    \A i, j \in 1..Len(parts) : i < j => Precedes(parts[i], parts[j])

\* the questions whose parts are exactly the set S
QuestionsOf(S) ==
    {q \in 1..Len(logicalQuestions) :
        /\ Range(logicalQuestions[q].parts) = S
        /\ Len(logicalQuestions[q].parts) = Cardinality(S)}

\* C9: a real detection X followed by k >= 1 continuations (also on later
\* pages) yields exactly one LogicalQuestion, with id X, the file's fileId
\* and those k+1 detections as its parts, in encounter order.
ContinuationAbsorption ==
    grouped =>
        \A a \in InputParts :
            (DetOf(a) # CONTINUATION /\ RunAfter(a) # {}) =>
                /\ Cardinality(QuestionsOf({a} \cup RunAfter(a))) = 1
                /\ \A q \in QuestionsOf({a} \cup RunAfter(a)) :
                      /\ logicalQuestions[q].id = DetOf(a)
                      /\ logicalQuestions[q].fileId = FileOf(a)
                      /\ logicalQuestions[q].parts[1] = a
                      /\ IsOrdered(logicalQuestions[q].parts)

\* witness of C9: a question absorbed a continuation that sits on a later page
AbsorbedAcrossPages ==
    /\ grouped
    /\ \E a \in InputParts :
          /\ DetOf(a) # CONTINUATION
          /\ \E b \in RunAfter(a) : PageNumberOf(b) > PageNumberOf(a)
          /\ QuestionsOf({a} \cup RunAfter(a)) # {}

\* C10: every (page, detection index) pair of the input is a part of exactly
\* one LogicalQuestion, exactly once, and no other part is produced; this
\* includes continuations with no real question before them in their file.
NoDetectionDroppedOrDuplicated ==
    grouped =>
        /\ \A a \in InputParts :
              Cardinality(UNION {{<<q, k>> : k \in {j \in 1..Len(logicalQuestions[q].parts) :
                                                        logicalQuestions[q].parts[j] = a}} :
                                 q \in 1..Len(logicalQuestions)}) = 1
        /\ \A q \in 1..Len(logicalQuestions) :
              Range(logicalQuestions[q].parts) \subseteq InputParts

\* witness of C10: an orphan continuation (nothing real before it in its file)
\* went through the grouper together with a real question
OrphanContinuationGrouped ==
    /\ grouped
    /\ \E a \in InputParts :
          /\ DetOf(a) = CONTINUATION
          /\ ~\E c \in InputParts : Precedes(c, a) /\ DetOf(c) # CONTINUATION
    /\ \E c \in InputParts : DetOf(c) # CONTINUATION
    /\ Len(logicalQuestions) >= 2

(***************************************************************************)
(* Properties of the pool                                                  *)
(***************************************************************************)

\* C1: as long as the concurrency was only assigned while the pool was idle
\* (it is fixed at N for the tasks submitted), activeCount never exceeds it,
\* however many tasks are submitted and in whatever order workers answer.
ConcurrencyCeiling == ~setWhileBusy => activeCount <= concurrency

\* witness of C1: more tasks than the ceiling were submitted, the pool is
\* full, a task waits, and a worker has already answered
CeilingReachedWithBacklog ==
    /\ ~setWhileBusy
    /\ concurrency < DefaultConcurrency
    /\ Len(promises) > concurrency
    /\ activeCount = concurrency
    /\ queue # <<>>
    /\ \E t \in 1..Len(promises) : promises[t] # "pending"

(***************************************************************************)
(* Properties of generateQuestionsFromRawPages                             *)
(***************************************************************************)

\* C8: with concurrency > 1, the returned list has the questions of one file
\* in the relative order in which createLogicalQuestions produced them.
ResultOrderPreserved ==
    (genPc = "done" /\ concurrency > 1) =>
        \A i, j \in 1..Len(returned) :
            (i < j /\ logicalQuestions[returned[i]].fileId = logicalQuestions[returned[j]].fileId)
                => returned[i] < returned[j]

(***************************************************************************)
(* Properties of the chunked store                                         *)
(***************************************************************************)
ChunksOf(id) == {k \in DOMAIN chunks : IsPrefix(id \o <<"#">>, k)}

\* the chunk writes a list of questions asks for, in the order of the
\* code: per question its dataUrl, then its originalDataUrl
QuestionWrites(id, qs) ==
    [n \in 1..(2 * Len(qs)) |->
        LET q == qs[(n + 1) \div 2]
        IN IF n % 2 = 1
           THEN [key |-> QuestionKey(id, q), payload |-> q.dataUrl]
           ELSE [key |-> QuestionOrigKey(id, q), payload |-> q.originalDataUrl]]

\* the step is the transaction of saveExamResult(name, rawPages, questions)
\* committing, for the exam id and the name it settled on before
SaveCommitted(rawPages, questions) == SaveCommit(rawPages, questions, "complete")

\* C2 as stated. After saveExamResult commits, getChunkData returns, for
\* every page of the input with a dataUrl and for every dataUrl and
\* originalDataUrl of a question of the input, that payload under its key.
ChunkRoundTrip ==
    [][\A inp \in SaveInput :
        SaveCommitted(inp[1], inp[2]) =>
            LET ps == OfFile(call.name, inp[1])
                ws == QuestionWrites(call.id, OfFile(call.name, inp[2]))
            IN /\ \A i \in 1..Len(ps) :
                    Truthy(ps[i].dataUrl) =>
                        Get(chunks', PageKey(call.id, ps[i])) = ps[i].dataUrl
               /\ \A n \in 1..Len(ws) :
                    Truthy(ws[n].payload) => Get(chunks', ws[n].key) = ws[n].payload]_vars

\* C2, amended. After saveExamResult commits, getChunkData returns the
\* payload of a page of the input with a dataUrl unless a later page of the
\* input has the same page number, and the dataUrl / originalDataUrl of a
\* question unless a later question payload of the input has the same chunk
\* key (the original image of question X and the image of question X_orig).
ChunkRoundTripLastWins ==
    [][\A inp \in SaveInput :
        SaveCommitted(inp[1], inp[2]) =>
            LET ps == OfFile(call.name, inp[1])
                ws == QuestionWrites(call.id, OfFile(call.name, inp[2]))
            IN /\ \A i \in 1..Len(ps) :
                    (/\ Truthy(ps[i].dataUrl)
                     /\ \A j \in (i + 1)..Len(ps) : ps[j].pageNumber # ps[i].pageNumber)
                        => Get(chunks', PageKey(call.id, ps[i])) = ps[i].dataUrl
               /\ \A n \in 1..Len(ws) :
                    (/\ Truthy(ws[n].payload)
                     /\ \A m \in (n + 1)..Len(ws) :
                            ~(ws[m].key = ws[n].key /\ Truthy(ws[m].payload)))
                        => Get(chunks', ws[n].key) = ws[n].payload]_vars

\* Witness of C2: an exam saved with page and question images, which are
\* retrievable under their keys.
SavedWithImages ==
    \E id \in ExamIds :
        /\ details[id] # NoRecord
        /\ \E i \in 1..Len(details[id].rawPages) :
              LET p == details[id].rawPages[i]
              IN Truthy(p.saved) /\ getChunkData(PageKey(id, p)) = p.saved
        /\ \E i \in 1..Len(details[id].questions) :
              LET q == details[id].questions[i]
              IN /\ Truthy(q.saved) /\ getChunkData(QuestionKey(id, q)) = q.saved
                 /\ Truthy(q.savedOriginal)

\* C3. After deleteExamResult(examId), or deleteExamResults with examId in
\* the list, commits, getChunkData finds no chunk whose key starts with
\* "examId#", whatever follows in the key.
PrefixDeleteComplete ==
    \A id \in ExamIds :
        deleted[id] # "no" =>
            \A k \in DOMAIN chunks : ~IsPrefix(id \o <<"#">>, k)

\* Witness of C3: a delete removed chunks of an exam, and chunks of another
\* exam are still there.
DeleteRemovedChunks ==
    \E id \in ExamIds :
        /\ deleted[id] = "chunks"
        /\ ChunksOf(id) = {}
        /\ chunks # <<>>

\* C4. An exam that was saved and then deleted is not found by
\* loadExamResult: it has neither an Index nor a Details record.
LoadAfterDeleteIsNull ==
    \A id \in ExamIds : deleted[id] # "no" => loadExamResult(id) = Null

\* Witness of C4: a saved exam (it had chunks) was deleted and is not found.
SavedThenDeleted ==
    \E id \in ExamIds :
        /\ deleted[id] = "chunks"
        /\ index[id] = NoRecord
        /\ loadExamResult(id) = Null

\* C5 as stated. With an Index record and no Details record,
\* loadExamResult returns the exam's name and empty collections.
LoadWithoutDetailsIsEmpty ==
    \A id \in ExamIds :
        (index[id] # NoRecord /\ details[id] = NoRecord) =>
            loadExamResult(id) =
                [name |-> index[id].name, rawPages |-> <<>>, questions |-> <<>>]

\* C6 as stated. When the transaction of saveExamResult fails, the promise
\* rejects and none of the three stores differs from before the call.
SaveAllOrNothing ==
    [][\A inp \in SaveInput, outcome \in TxOutcomes \ {"complete"} :
        SaveCommit(inp[1], inp[2], outcome) =>
            /\ promise' = "rejected"
            /\ UNCHANGED <<index, details, chunks>>]_vars

\* the payloads the entries of an exam's skeleton were saved with, each
\* with its chunk key
SkeletonPayloads(id) ==
    IF details[id] = NoRecord THEN {}
    ELSE LET r == details[id]
         IN {[key |-> PageKey(id, r.rawPages[i]), payload |-> r.rawPages[i].saved] :
                i \in 1..Len(r.rawPages)}
            \cup {[key |-> QuestionKey(id, r.questions[i]),
                   payload |-> r.questions[i].saved] : i \in 1..Len(r.questions)}
            \cup {[key |-> QuestionOrigKey(id, r.questions[i]),
                   payload |-> r.questions[i].savedOriginal] : i \in 1..Len(r.questions)}

\* C7 as stated. In every reachable state, every page or question entry
\* of a Details skeleton that was saved with an image payload has that
\* payload retrievable under its chunk key.
SkeletonChunkConsistency ==
    \A id \in ExamIds : \A e \in SkeletonPayloads(id) :
        Truthy(e.payload) => getChunkData(e.key) = e.payload

(***************************************************************************)
(* Further properties of the grouper                                       *)
(***************************************************************************)
\* a continuation with no non-continuation detection before it in its file
IsOrphan(a) ==
    /\ DetOf(a) = CONTINUATION
    /\ ~\E c \in InputParts : Precedes(c, a) /\ DetOf(c) # CONTINUATION

OrphanId(a) == "cont_" \o ToString(PageNumberOf(a)) \o "_" \o ToString(a.indexInFile)

\* C11 as stated. A continuation is appended only to a LogicalQuestion that
\* a non-continuation detection of the same file started, and every
\* continuation with no non-continuation detection before it in its file is
\* a LogicalQuestion of its own, with id cont_{pageNumber}_{index}.
OrphanContinuationsStandalone ==
    grouped =>
        /\ \A q \in 1..Len(logicalQuestions) :
              LET parts == logicalQuestions[q].parts
              IN \A k \in 2..Len(parts) :
                    /\ DetOf(parts[1]) # CONTINUATION
                    /\ FileOf(parts[1]) = FileOf(parts[k])
        /\ \A a \in InputParts :
              IsOrphan(a) =>
                  \E q \in 1..Len(logicalQuestions) :
                      /\ logicalQuestions[q].parts = <<a>>
                      /\ logicalQuestions[q].id = OrphanId(a)
                      /\ logicalQuestions[q].fileId = FileOf(a)

(***************************************************************************)
(* Further properties of the pool                                          *)
(***************************************************************************)
\* C12. When a worker answers its task with success = false, the task's
\* promise resolves with null (no promise rejects), the worker is marked
\* free and activeCount decremented, and the pool goes on dispatching: the
\* freed slot goes to the oldest queued task, and no task stays queued
\* while activeCount is below the concurrency.
FailureIsolated ==
    [][\A w \in 1..Len(handlers) :
        WorkerMessage(w, FALSE) =>
            LET t == handlers[w]
                taken == Len(queue) - Len(queue')
            IN /\ promises'[t] = "null"
               /\ \A u \in 1..Len(promises) : u # t => promises'[u] = promises[u]
               /\ activeCount' = activeCount - 1 + taken
               /\ \/ ~workerMap'[w] /\ handlers'[w] = 0
                  \/ workerMap'[w] /\ handlers'[w] \in Range(queue)
               /\ (queue # <<>> /\ activeCount - 1 < concurrency) =>
                      /\ taken >= 1
                      /\ \E v \in 1..Len(handlers') : handlers'[v] = Head(queue)
               /\ queue' = <<>> \/ activeCount' >= concurrency']_vars

\* Witness of C12: the only worker failed on task 1, whose promise is null,
\* and is now working on task 2, which was queued behind it.
FailedThenNextDispatched ==
    /\ Len(workerMap) = 1
    /\ Len(promises) >= 2
    /\ promises[1] = "null"
    /\ handlers[1] = 2
    /\ workerMap[1]
    /\ activeCount = 1

(***************************************************************************)
(* Further properties of generateQuestionsFromRawPages                     *)
(***************************************************************************)
\* the tasks whose promise resolved with a result, and with null
Succeeded == {k \in 1..Len(promises) : promises[k] = "result"}
ResolvedNull == {k \in 1..Len(promises) : promises[k] = "null"}

\* C13. Failed tasks do not make the call fail: it returns, and the list
\* it returns holds exactly the results of the tasks that resolved
\* non-null, each once, so its length is the number of logical questions
\* minus the number of tasks that resolved null.
PartialResults ==
    genPc = "done" =>
        /\ Range(returned) = Succeeded
        /\ \A i, j \in 1..Len(returned) : returned[i] = returned[j] => i = j
        /\ Len(returned) = Len(logicalQuestions) - Cardinality(ResolvedNull)

\* Witness of C13: a call that was not aborted returned fewer results than
\* there are logical questions, because a worker failed on one of them.
ReturnedPartial ==
    /\ genPc = "done"
    /\ ~aborted
    /\ ResolvedNull # {}
    /\ returned # <<>>
    /\ Len(returned) < Len(logicalQuestions)

\* C14 as stated. Once the abort signal is set during the call, no logical
\* question still waiting to be sent to a worker is sent to one, and the
\* tasks in flight on a worker stay there until the worker answers.
AbortStopsNewWork ==
    [][(aborted /\ genPc = "running") =>
          /\ \A k \in Range(queue) : k \in Range(queue')
          /\ \A w \in 1..Len(handlers) :
                handlers[w] # 0 =>
                    handlers'[w] = handlers[w] \/ promises'[handlers[w]] # "pending"]_vars

\* C15. The promise of onIdle() resolves only in a step taken with the
\* queue empty and activeCount 0, whether at the call or at a later check.
OnIdleSafety ==
    [][(onIdle' \in {"resolvedAtCall", "resolvedByCheck"} /\ onIdle' # onIdle) =>
          /\ queue = <<>> /\ activeCount = 0
          /\ queue' = <<>> /\ activeCount' = 0]_vars

\* Witness of C15: onIdle() was called on a busy pool, and a later check
\* resolved it after every submitted task was answered.
OnIdleResolvedAfterWork ==
    /\ onIdle = "resolvedByCheck"
    /\ Len(promises) >= 2
    /\ \A t \in 1..Len(promises) : promises[t] # "pending"
    /\ queue = <<>>
    /\ activeCount = 0

(***************************************************************************)
(* Further properties of the chunked store                                 *)
(***************************************************************************)
\* the exams the Index lists under a name
NamedIn(idx, name) == {id \in ExamIds : idx[id] # NoRecord /\ idx[id].name = name}

\* what a chunk key of exam id says after "id#": kind, fileName, local id
ItemOf(key, id) == SubSeq(key, Len(id) + 2, Len(key))

\* C16. A save of a name the Index already lists reuses that exam's id and
\* leaves the Index with one record for the name (and no name with more
\* records than before); the key it writes for an item (kind, fileName,
\* page number or question id) that the exam already has a chunk for is
\* the key of that chunk, so the chunk is overwritten, not duplicated.
RepeatedSavesOverwrite ==
    [][\A inp \in SaveInput :
        (call.op = "saveExamResult" /\ SaveCommitted(inp[1], inp[2])) =>
            LET prior == NamedIn(index, call.name)
                written == DOMAIN chunks' \ {k \in DOMAIN chunks : chunks'[k] = chunks[k]}
            IN /\ prior # {} => prior = {call.id}
               /\ NamedIn(index', call.name) = {call.id}
               /\ \A name \in ExamNames :
                     Cardinality(NamedIn(index, name)) <= 1
                         => Cardinality(NamedIn(index', name)) <= 1
               /\ \A p \in prior : \A k \in written : \A k0 \in ChunksOf(p) :
                     ItemOf(k0, p) = ItemOf(k, call.id) => k0 = k
               /\ \A p \in prior : \A k, k0 \in DOMAIN chunks' :
                     (/\ IsPrefix(p \o <<"#">>, k0) /\ IsPrefix(call.id \o <<"#">>, k)
                      /\ ItemOf(k0, p) = ItemOf(k, call.id)) => k0 = k]_vars

\* Witness of C16: an exam was saved with its page images and then saved
\* again, under the same id, from the skeleton a load returns: the page
\* entry was saved without a payload and its chunk is the earlier one.
ResavedUnderSameId ==
    \E id \in ExamIds :
        /\ index[id] # NoRecord
        /\ details[id] # NoRecord
        /\ \E i \in 1..Len(details[id].rawPages) :
              LET p == details[id].rawPages[i]
              IN /\ p.saved = NoData
                 /\ p.fileName = index[id].name
                 /\ PageKey(id, p) \in DOMAIN chunks

\* C17. The rawPages a committed saveExamResult writes to Details holds
\* one page per distinct pageNumber of the input, namely the last input
\* page with that number (as a skeleton), in ascending pageNumber order,
\* and the pageCount of the Index record is the number of these pages.
SaveDeduplicates ==
    [][\A inp \in SaveInput :
        (call.op = "saveExamResult" /\ SaveCommitted(inp[1], inp[2])) =>
            LET ps == OfFile(call.name, inp[1])
                out == details'[call.id].rawPages
                LastOf(n) == CHOOSE j \in 1..Len(ps) :
                                /\ ps[j].pageNumber = n
                                /\ \A l \in (j + 1)..Len(ps) : ps[l].pageNumber # n
            IN /\ {out[i].pageNumber : i \in 1..Len(out)} =
                      {ps[j].pageNumber : j \in 1..Len(ps)}
               /\ \A i, j \in 1..Len(out) : i < j => out[i].pageNumber < out[j].pageNumber
               /\ \A i \in 1..Len(out) :
                     LET src == ps[LastOf(out[i].pageNumber)]
                     IN /\ out[i].fileName = src.fileName
                        /\ out[i].detections = src.detections
                        /\ out[i].saved = src.dataUrl
                        /\ out[i].dataUrl = NoData
               /\ index'[call.id].pageCount = Len(out)]_vars

\* Witness of C17: the save of pages 2, 1, 1 left Details with page 1 (the
\* second of the two pages numbered 1) before page 2, and pageCount 2.
SavedDeduplicated ==
    \E id \in ExamIds :
        /\ index[id] # NoRecord /\ details[id] # NoRecord
        /\ index[id].pageCount = 2
        /\ Len(details[id].rawPages) = 2
        /\ details[id].rawPages[1].pageNumber = 1
        /\ details[id].rawPages[1].saved = "d2"
        /\ details[id].rawPages[2].pageNumber = 2

(***************************************************************************)
(* C18  cleanupHistoryItem.  When the Details record it reads lists a page *)
(* number more than once, its committed write leaves one page per page     *)
(* number in ascending order, each taken from the record read and with the *)
(* greatest detection count among the pages of its number; it returns the  *)
(* number of pages removed, and the Index record, when there is one, gets  *)
(* the new page count.  When the record lists no page number twice it      *)
(* returns 0 and writes nothing.                                           *)
(***************************************************************************)
HasDuplicatePages(rawPages) ==
    \E i, j \in 1..Len(rawPages) : i < j /\ rawPages[i].pageNumber = rawPages[j].pageNumber

CleanupWriteContract ==
    LET before == call.details.rawPages
        after  == details'[call.id].rawPages
    IN /\ HasDuplicatePages(before)
       /\ ~HasDuplicatePages(after)
       /\ \A i \in 1..Len(after) - 1 : after[i].pageNumber < after[i + 1].pageNumber
       /\ \A b \in 1..Len(before) :
             \E a \in 1..Len(after) :
                /\ after[a].pageNumber = before[b].pageNumber
                /\ after[a].detections >= before[b].detections
       /\ \A a \in 1..Len(after) : \E b \in 1..Len(before) : after[a] = before[b]
       /\ removedCount' = Len(before) - Len(after)
       /\ removedCount' > 0
       /\ index[call.id] # NoRecord => index'[call.id].pageCount = Len(after)
       /\ chunks' = chunks

CleanupReadContract(id) ==
    IF details[id] # NoRecord /\ HasDuplicatePages(details[id].rawPages)
    THEN call' # NoCall
    ELSE /\ call' = NoCall
         /\ promise' = "resolved"
         /\ removedCount' = 0
         /\ UNCHANGED <<index, details, chunks>>

CleanupContract ==
    [][/\ CleanupWrite("complete") => CleanupWriteContract
       /\ \A id \in ExamIds : CleanupRead(id) => CleanupReadContract(id)]_vars

\* a cleanup removed the duplicate of page 1 from the three-page record:
\* pages 1 and 2 remain in that order, page 1 being the one with a detection
CleanedUpDuplicates ==
    /\ removedCount = 1
    /\ call = NoCall
    /\ details[LegacyId] # NoRecord
    /\ Len(details[LegacyId].rawPages) = 2
    /\ details[LegacyId].rawPages[1].pageNumber = 1
    /\ details[LegacyId].rawPages[1].detections = 1
    /\ details[LegacyId].rawPages[2].pageNumber = 2
    /\ index[LegacyId] # NoRecord
    /\ index[LegacyId].pageCount = 2

(***************************************************************************)
(* Specification of hydration: saves and deletes of exams, and the reads   *)
(* of single chunks that components make between them.                     *)
(***************************************************************************)
\* the chunks a component asks for: page 1 and question "1" of either file
HydrationKeys ==
    UNION {{getPageImage(id, name, 1),
            getQuestionImage(id, name, <<"1">>),
            getQuestionOriginalImage(id, name, <<"1">>)} :
           <<id, name>> \in ExamIds \X ExamNames}

HydrateWrites ==
    \/ \E name \in ExamNames : SaveRead(name)
    \/ \E inp \in SaveInput, outcome \in TxOutcomes : SaveCommit(inp[1], inp[2], outcome)
    \/ \E id \in ExamIds, outcome \in TxOutcomes : DeleteExamResult(id, outcome)

NextHydrate ==
    \/ HydrateWrites /\ hydrated' = NoRead /\ UNCHANGED <<groupVars, poolVars, genVars, overlapVars, mergeVars, imageVars>>
    \/ \E key \in HydrationKeys : ReadChunk(key) /\ UNCHANGED <<groupVars, poolVars, genVars, overlapVars, mergeVars, imageVars>>

SpecHydrate == InitPoolSpec /\ [][NextHydrate]_vars

PartsStrictlyAscending ==
    grouped =>
       \A q \in 1..Len(logicalQuestions) :
          LET parts == logicalQuestions[q].parts
          IN \A i, j \in 1..Len(parts) :
                i < j =>
                   \/ PageNumberOf(parts[i]) < PageNumberOf(parts[j])
                   \/ /\ PageNumberOf(parts[i]) = PageNumberOf(parts[j])
                      /\ parts[i].indexInFile < parts[j].indexInFile

(***************************************************************************)
(* Specification of the trimmer: one call of one trimming function on any  *)
(* buffer of the sizes modelled.                                           *)
(***************************************************************************)
notTrimVars == <<groupVars, poolVars, genVars, storeVars, readVars, overlapVars, mergeVars, normVars>>

InitTrimSpec ==
    /\ pages = <<>>
    /\ logicalQuestions = <<>>
    /\ grouped = FALSE
    /\ previous = NotRun
    /\ InitPool
    /\ InitGen
    /\ InitStore
    /\ buffer \in Buffers
    /\ InitTrim
    /\ boxes2d = Undefined
    /\ InitNorm
    /\ fileDetections = <<>>
    /\ InitMerge

NextTrim == \E fn \in TrimFunctions : Trim(fn) /\ UNCHANGED notTrimVars

SpecTrim == InitTrimSpec /\ [][NextTrim]_vars

(***************************************************************************)
(* C22  Edge-peel bound.  For every buffer, also one with ink in every row *)
(* and column, getTrimmedBounds takes from each edge at most               *)
(* floor(0.15 * dimension) rows or columns, and the box it returns lies    *)
(* inside the buffer.                                                      *)
(***************************************************************************)
EdgePeelBound ==
    trimmedBy = "getTrimmedBounds" =>
       LET limitY == (15 * buffer.h) \div 100
           limitX == (15 * buffer.w) \div 100
       IN /\ box.y >= 0 /\ box.y <= limitY
          /\ box.y + box.h >= buffer.h - limitY
          /\ box.y + box.h <= buffer.h
          /\ box.x >= 0 /\ box.x <= limitX
          /\ box.x + box.w >= buffer.w - limitX
          /\ box.x + box.w <= buffer.w
          /\ box.w >= 0 /\ box.h >= 0

\* a buffer with ink in every pixel was peeled by one row or column at
\* every edge, and no further
PeeledFullInk ==
    /\ trimmedBy = "getTrimmedBounds"
    /\ \A i \in DOMAIN buffer.data : buffer.data[i] = Ink
    /\ (15 * buffer.h) \div 100 >= 1
    /\ box = [x |-> 1, y |-> 1, w |-> buffer.w - 2, h |-> buffer.h - 2]

(***************************************************************************)
(* C23  Blank buffer policy.  For a buffer of positive width and height in *)
(* which the function finds no ink pixel, trimWhitespace (either of the    *)
(* two functions of that name) returns the bounds of the whole buffer.     *)
(***************************************************************************)
IsBlank(buf, fn) == \A i \in DOMAIN buf.data : ~HasInk(fn, buf.data[i])

FullBounds(buf) == [x |-> 0, y |-> 0, w |-> buf.w, h |-> buf.h]

BlankBufferPolicy ==
    (trimmedBy \in {"trimWhitespace", "sharedTrimWhitespace"} /\ IsBlank(buffer, trimmedBy))
       => box = FullBounds(buffer)

(***************************************************************************)
(* C24  Trim idempotence.  For any buffer with at least one ink pixel,     *)
(* trimWhitespace of the buffer cropped to the box trimWhitespace returned *)
(* is the identity box of the cropped buffer: nothing more is trimmed.     *)
(***************************************************************************)
\* the pixels of buf inside the box b, as a buffer of its own
Crop(buf, b) ==
    [w |-> b.w, h |-> b.h,
     data |-> [i \in 0..(b.w * b.h - 1) |->
                 buf.data[(b.y + (i \div b.w)) * buf.w + b.x + (i % b.w)]]]

TrimWith(fn, buf) ==
    IF fn = "trimWhitespace" THEN trimWhitespace(buf) ELSE sharedTrimWhitespace(buf)

TrimIdempotent ==
    (trimmedBy \in {"trimWhitespace", "sharedTrimWhitespace"} /\ ~IsBlank(buffer, trimmedBy))
       => TrimWith(trimmedBy, Crop(buffer, box)) = FullBounds(Crop(buffer, box))

\* trimWhitespace took blank margins off a buffer with ink, on both axes
TrimmedMargins ==
    /\ trimmedBy = "trimWhitespace"
    /\ ~IsBlank(buffer, trimmedBy)
    /\ box.w > 0 /\ box.w < buffer.w
    /\ box.h > 0 /\ box.h < buffer.h
    /\ box.x > 0 /\ box.y > 0
    /\ trimWhitespace(Crop(buffer, box)) = [x |-> 0, y |-> 0, w |-> box.w, h |-> box.h]

(***************************************************************************)
(* Specification of the normalizer: one call on any value of the inputs    *)
(***************************************************************************)
InitNormSpec ==
    /\ pages = <<>>
    /\ logicalQuestions = <<>>
    /\ grouped = FALSE
    /\ previous = NotRun
    /\ InitPool
    /\ InitGen
    /\ InitStore
    /\ buffer = [w |-> 1, h |-> 1, data |-> [i \in {0} |-> Paper]]
    /\ InitTrim
    /\ boxes2d \in BoxInputs
    /\ InitNorm
    /\ fileDetections = <<>>
    /\ InitMerge

NextNorm ==
    Normalize /\ UNCHANGED <<groupVars, poolVars, genVars, storeVars, readVars, overlapVars, mergeVars, trimVars>>

SpecNorm == InitNormSpec /\ [][NextNorm]_vars

(***************************************************************************)
(* C25  Normalizer error.  normalizeBoxes fails with MalformedInputError   *)
(* when the first element of its input is neither a number nor a list of   *)
(* the shape of a rectangle: an empty list, or a list that starts with a   *)
(* string or an object.                                                    *)
(***************************************************************************)
IsRectangle(x) ==
    /\ x.t = "array"
    /\ Len(x.items) = 4
    /\ \A i \in 1..4 : x.items[i].t = "number"

Malformed(x) ==
    /\ x.t = "array"
    /\ First(x).t # "number"
    /\ ~IsRectangle(First(x))

NormalizerError ==
    (normalized # NotCalled /\ Malformed(boxes2d))
       => normalized = [throws |-> "MalformedInputError"]

(***************************************************************************)
(* C26  File-wide width alignment behind a barrier.  The final images of   *)
(* the questions of one file all get the greatest trimmed content width    *)
(* among them, so no final image of a file is handed out before the trim   *)
(* of every question of that file is known: a worker has answered for      *)
(* every question of the file before the result of one of them is pushed.  *)
(***************************************************************************)
AlignmentBarrier ==
    \A t \in Range(results) :
       \A u \in 1..Len(logicalQuestions) :
          logicalQuestions[u].fileId = logicalQuestions[t].fileId => promises[u] # "pending"

(***************************************************************************)
(* C27  Pool saturation.  Whenever exec, a worker's completion handler or  *)
(* an assignment of the concurrency has finished, the queue is not left    *)
(* with a task while activeCount < concurrency: a queued task waits only   *)
(* when activeCount >= concurrency.                                        *)
(***************************************************************************)
PoolSaturated == queue # <<>> => activeCount >= concurrency

\* the concurrency was assigned while tasks were in the pool, and the pool
\* is full at the greatest value with a task still waiting
SaturatedWithBacklog ==
    /\ setWhileBusy
    /\ concurrency = MaxConcurrency
    /\ activeCount = concurrency
    /\ queue # <<>>

(***************************************************************************)
(* C28  Worker state machine.  Each worker goes FREE -> BUSY -> FREE: it   *)
(* is busy exactly while the handler of one job listens on it, a busy      *)
(* worker is sent no other job before it has answered the one it has, and  *)
(* in every state the number of workers marked busy in workerMap is        *)
(* activeCount.                                                            *)
(***************************************************************************)
BusyWorkers == {w \in 1..Len(workerMap) : workerMap[w]}

WorkerStateMachine ==
    /\ [](/\ Cardinality(BusyWorkers) = activeCount
          /\ Len(handlers) = Len(workerMap)
          /\ \A w \in 1..Len(workerMap) : workerMap[w] <=> handlers[w] # 0)
    /\ [][\A w \in 1..Len(workerMap) :
             /\ workerMap[w] =>
                   \/ handlers'[w] = handlers[w] /\ workerMap'[w]
                   \/ promises'[handlers[w]] # "pending"
             /\ (~workerMap[w] /\ workerMap'[w]) => handlers'[w] \in Range(queue) \cup {Len(promises')}]_vars

\* the only worker of the pool answered for the first task and is busy with
\* the second
WorkerBusyAgain ==
    /\ Len(workerMap) = 1
    /\ workerMap[1]
    /\ handlers[1] = 2
    /\ promises[1] # "pending"
    /\ activeCount = 1

(***************************************************************************)
(* C29  No preemption on a change of concurrency.  An assignment below the *)
(* current activeCount leaves every task in flight on its worker and sends *)
(* no queued task; no task is sent to a worker, in any step, unless        *)
(* activeCount stays within the value in force; an assignment above the    *)
(* old value sends the oldest queued tasks at once, until the queue is     *)
(* empty or activeCount is the new value.                                  *)
(***************************************************************************)
Min(a, b) == IF a <= b THEN a ELSE b

\* the workers that are sent a job in the step
Sent == {w \in 1..Len(handlers') :
            /\ handlers'[w] # 0
            /\ (w \in 1..Len(handlers) => handlers'[w] # handlers[w])}

NoPreemption ==
    [][/\ Sent # {} => activeCount' <= concurrency'
       /\ \A val \in 1..MaxConcurrency :
             SetConcurrency(val) =>
                LET room == IF val > activeCount THEN val - activeCount ELSE 0
                    taken == Min(room, Len(queue))
                IN /\ \A w \in 1..Len(handlers) :
                         handlers[w] # 0 => handlers'[w] = handlers[w] /\ workerMap'[w]
                   /\ promises' = promises
                   /\ activeCount' = activeCount + taken
                   /\ queue' = SubSeq(queue, taken + 1, Len(queue))
                   /\ {handlers'[w] : w \in Sent} = {queue[i] : i \in 1..taken}]_vars

\* the concurrency was lowered below the number of tasks in flight: they
\* all go on, and a task submitted since waits in the queue
LoweredBelowActive ==
    /\ setWhileBusy
    /\ activeCount > concurrency
    /\ queue # <<>>
    /\ Cardinality({w \in 1..Len(handlers) : handlers[w] # 0}) = activeCount
    /\ \A t \in 1..Len(promises) : promises[t] = "pending"

(***************************************************************************)
(* Specification of the pool with workers that answer: a worker that has a *)
(* job eventually posts its message, with success or failure.              *)
(***************************************************************************)
MaxWorkers == IF DefaultConcurrency > MaxConcurrency THEN DefaultConcurrency ELSE MaxConcurrency

Answer(w) ==
    \E success \in BOOLEAN :
       WorkerMessage(w, success) /\ UNCHANGED <<groupVars, genVars, storeVars, readVars, overlapVars, mergeVars, imageVars>>

SpecPoolLive ==
    /\ InitPoolSpec
    /\ [][NextPool]_vars
    /\ \A w \in 1..MaxWorkers : WF_vars(Answer(w))

(***************************************************************************)
(* C30  Every task is settled.  Whatever exec calls, assignments of the    *)
(* concurrency, clear() calls and answers occur, if every worker answers   *)
(* each message it is sent, the promise of every task submitted with exec  *)
(* is eventually resolved, and it is resolved once.                        *)
(***************************************************************************)
EveryTaskSettled ==
    /\ \A t \in 1..MaxTasks : (Len(promises) >= t) ~> (Len(promises) >= t /\ promises[t] # "pending")
    /\ [][\A t \in 1..Len(promises) :
             promises[t] # "pending" => promises'[t] = promises[t]]_vars

(***************************************************************************)
(* C31  Pointer reset per file.  Every part of a LogicalQuestion is a      *)
(* detection of the question's own file, so no continuation is attached to *)
(* a question of another fileName; and the first detection of each file    *)
(* starts a question of its own, as it does in an input that has this file *)
(* only, whatever the file before it ended with.                           *)
(***************************************************************************)
IsFirstOfFile(a) == ~\E c \in InputParts : Precedes(c, a)

PointerResetPerFile ==
    grouped =>
       /\ \A q \in 1..Len(logicalQuestions) :
             \A k \in 1..Len(logicalQuestions[q].parts) :
                FileOf(logicalQuestions[q].parts[k]) = logicalQuestions[q].fileId
       /\ \A a \in InputParts :
             IsFirstOfFile(a) =>
                \E q \in 1..Len(logicalQuestions) :
                   /\ logicalQuestions[q].parts[1] = a
                   /\ logicalQuestions[q].fileId = FileOf(a)
                   /\ logicalQuestions[q].id =
                         IF DetOf(a) = CONTINUATION THEN OrphanId(a) ELSE DetOf(a)

\* the second file of the input starts with a continuation, after a first
\* file that ended with a question: the continuation is a question of its own
SecondFileStartsWithContinuation ==
    /\ grouped
    /\ Len(pages) = 2
    /\ pages[1].fileName # pages[2].fileName
    /\ pages[1].detections # <<>>
    /\ pages[1].detections[Len(pages[1].detections)] # CONTINUATION
    /\ pages[2].detections # <<>>
    /\ pages[2].detections[1] = CONTINUATION
    /\ Len(logicalQuestions) >= 2
    /\ logicalQuestions[Len(logicalQuestions)].fileId = pages[2].fileName

(***************************************************************************)
(* C32  Chunk key injectivity.  Within one exam, two different stored      *)
(* items (the image of a page, the final image of a question, the original *)
(* image of a question, told apart by kind, fileName and page number or    *)
(* question id) never have the same chunk key.                             *)
(***************************************************************************)
\* the items the Details record of exam id lists
StoredItems(id) ==
    {[kind |-> "p", fileName |-> p.fileName, id |-> NumberToString(p.pageNumber),
      variant |-> "image"] : p \in Range(details[id].rawPages)}
    \cup {[kind |-> "q", fileName |-> q.fileName, id |-> q.id, variant |-> v] :
             <<q, v>> \in Range(details[id].questions) \X {"final", "original"}}

KeyOfItem(examId, item) ==
    getChunkKey(examId, item.kind, item.fileName,
                IF item.variant = "original" THEN item.id \o ORIG ELSE item.id)

ChunkKeysInjective ==
    \A id \in ExamIds :
       details[id] # NoRecord =>
          \A i, j \in StoredItems(id) :
             i # j => KeyOfItem(id, i) # KeyOfItem(id, j)

(***************************************************************************)
(* Specification of the chunk writers: saves, replacements of the          *)
(* questions of an exam (also by a shorter list) and deletes of one or of  *)
(* several exams, on a database that starts empty.                         *)
(***************************************************************************)
\* the question lists updateExamQuestionsOnly is given: those of a save, or
\* one question with another id, as after a new detection of the page
ReplacementQuestions == QuestionInput \cup {<<Question(<<"2">>, "d1", NoData)>>}

ChunkWriters ==
    \/ \E name \in ExamNames : SaveRead(name)
    \/ \E inp \in SaveInput, outcome \in TxOutcomes : SaveCommit(inp[1], inp[2], outcome)
    \/ \E id \in ExamIds, qs \in ReplacementQuestions, outcome \in TxOutcomes :
          /\ index[id] # NoRecord
          /\ UpdateExamQuestionsOnly(id, OfFile(index[id].name, qs), outcome)
    \/ \E id \in ExamIds, outcome \in TxOutcomes : DeleteExamResult(id, outcome)
    \/ \E ids \in SeqsUpTo(ExamIds, Cardinality(ExamIds)), outcome \in TxOutcomes :
          DeleteExamResults(ids, outcome)

NextChunks == ChunkWriters /\ UNCHANGED otherVars

SpecChunks == InitPoolSpec /\ [][NextChunks]_vars

(***************************************************************************)
(* C33  No orphaned chunks.  After any committed sequence of               *)
(* saveExamResult, updateExamQuestionsOnly and deleteExamResult calls,     *)
(* every key of Chunks is the key of a page or question that the Details   *)
(* record of an exam lists: replacing the questions of an exam by others   *)
(* leaves no chunk of the removed ones behind.                             *)
(***************************************************************************)
NoOrphanedChunks ==
    \A key \in DOMAIN chunks :
       \E id \in ExamIds :
          /\ details[id] # NoRecord
          /\ \E item \in StoredItems(id) : KeyOfItem(id, item) = key

\* the record and chunks of one exam are the same before and after a step
ExamUntouched(id) ==
    /\ index'[id] = index[id]
    /\ details'[id] = details[id]
    /\ \A k \in (DOMAIN chunks) \cup (DOMAIN chunks') :
          IsPrefix(id \o <<"#">>, k) =>
             /\ k \in DOMAIN chunks
             /\ k \in DOMAIN chunks'
             /\ chunks'[k] = chunks[k]

(***************************************************************************)
(* C34  Delete frame.  A step of deleteExamResult(examId) or of            *)
(* deleteExamResults(ids) leaves the Index record, the Details record and  *)
(* every chunk of every exam that the call does not name as they were.     *)
(***************************************************************************)
\* (a step that writes nothing leaves every exam as it was, so only the
\* steps that change the database are compared with the two actions)
DeleteFrame ==
    [][(<<index, details, chunks>>' # <<index, details, chunks>>) =>
       /\ \A id \in ExamIds, outcome \in TxOutcomes :
             DeleteExamResult(id, outcome) =>
                \A other \in ExamIds \ {id} : ExamUntouched(other)
       /\ \A ids \in SeqsUpTo(ExamIds, Cardinality(ExamIds)), outcome \in TxOutcomes :
             DeleteExamResults(ids, outcome) =>
                \A other \in ExamIds \ Range(ids) : ExamUntouched(other)]_vars

\* Witness of C34: an exam was deleted with its chunks while another exam
\* has both of its records and chunks.
DeleteLeftOtherExam ==
    \E id \in ExamIds, other \in ExamIds :
        /\ id # other
        /\ deleted[id] = "chunks"
        /\ index[id] = NoRecord
        /\ index[other] # NoRecord
        /\ details[other] # NoRecord
        /\ ChunksOf(other) # {}

\* a save input as loadExamResult returns it: no page and no question has an
\* image
IsSkeleton(inp) ==
    /\ \A i \in 1..Len(inp[1]) : ~Truthy(inp[1][i].dataUrl)
    /\ \A i \in 1..Len(inp[2]) :
          ~Truthy(inp[2][i].dataUrl) /\ ~Truthy(inp[2][i].originalDataUrl)

IndexDetailsPaired ==
    \A id \in ExamIds :
       /\ (index[id] # NoRecord) <=> (details[id] # NoRecord)
       /\ (index[id] # NoRecord /\ details[id] # NoRecord) =>
             index[id].pageCount = Len(details[id].rawPages)

(***************************************************************************)
(* C36  Index/Details pairing.  No step of saveExamResult,                 *)
(* updatePageDetections, updateExamQuestionsOnly, cleanupHistoryItem,      *)
(* deleteExamResult or deleteExamResults takes a database in which every   *)
(* exam has both records or none, with pageCount the length of rawPages,   *)
(* to a database in which that is no longer so.                            *)
(***************************************************************************)
PairingPreserved == [][IndexDetailsPaired => IndexDetailsPaired']_vars

(***************************************************************************)
(* Specification of overlapping saves: two callers of saveExamResult, each *)
(* between its read of the history list and its transaction or not, and    *)
(* deletes of single exams, on a database that starts empty.               *)
(***************************************************************************)
NextOverlap ==
    /\ \/ \E c \in Callers, name \in ExamNames : OverlapSaveRead(c, name)
       \/ \E c \in Callers, inp \in SaveInput, outcome \in TxOutcomes :
             OverlapSaveCommit(c, inp[1], inp[2], outcome)
       \/ \E id \in ExamIds, outcome \in TxOutcomes :
             DeleteExamResult(id, outcome) /\ UNCHANGED pending
    /\ UNCHANGED <<groupVars, poolVars, genVars, readVars, mergeVars, imageVars>>

SpecOverlap == InitPoolSpec /\ [][NextOverlap]_vars

(***************************************************************************)
(* C37  Concurrent saves of one name.  Once the saveExamResult calls in    *)
(* flight have all ended, also two that both read the history list before  *)
(* either committed, no exam name has more than one Index record, and the  *)
(* chunks of that name are all under the id of that record.                *)
(***************************************************************************)
OneExamPerName ==
    pending = NoPending =>
       \A name \in ExamNames :
          /\ Cardinality(FindByName(name)) <= 1
          /\ \A id \in ExamIds :
                (\E k \in ChunksOf(id) : IsPrefix(id \o <<"#", "p", "#">> \o name \o <<"#">>, k))
                   => id \in FindByName(name)

(***************************************************************************)
(* C38  Cleanup does not lose concurrent updates.  When the write of       *)
(* cleanupHistoryItem commits, the questions of the Details record are     *)
(* those the record had just before the write, and its pages are the       *)
(* deduplicated pages of that record: what updateExamQuestionsOnly or      *)
(* updatePageDetections committed since the cleanup's read is kept.        *)
(***************************************************************************)
CleanupKeepsUpdates ==
    [][(CleanupWrite("complete") /\ details[call.id] # NoRecord) =>
          /\ details'[call.id].questions = details[call.id].questions
          /\ details'[call.id].rawPages = CleanupPages(details[call.id].rawPages)]_vars

(***************************************************************************)
(* Specification of updatePageDetectionsAndQuestions: saves, deletes and   *)
(* updates of the detections of a page together with the questions of its  *)
(* file, on a database that starts empty.                                  *)
(***************************************************************************)
NextUpdateBoth ==
    /\ \/ \E name \in ExamNames : SaveRead(name)
       \/ \E inp \in SaveInput, outcome \in TxOutcomes : SaveCommit(inp[1], inp[2], outcome)
       \/ \E name \in ExamNames : UpdateBothRead(name)
       \/ \E pn \in UpdatedPages, nd \in NewDetections, qs \in ReplacementQuestions,
             outcome \in TxOutcomes : UpdateBothCommit(pn, nd, qs, outcome)
       \/ \E id \in ExamIds, outcome \in TxOutcomes : DeleteExamResult(id, outcome)
    /\ UNCHANGED otherVars

SpecUpdateBoth == InitPoolSpec /\ [][NextUpdateBoth]_vars

(***************************************************************************)
(* C39  updatePageDetectionsAndQuestions commits in one transaction.  When *)
(* its transaction runs without a failure for an exam that has a Details   *)
(* record, the page has the new detections, the record has the skeletons   *)
(* of the new questions, the images of the new questions are in Chunks,    *)
(* and the promise is resolved.                                            *)
(***************************************************************************)
UpdateBothCommits ==
    [][\A pn \in UpdatedPages, nd \in NewDetections, qs \in ReplacementQuestions :
          (UpdateBothCommit(pn, nd, qs, "complete") /\ details[call.id] # NoRecord) =>
             /\ promise' = "resolved"
             /\ details'[call.id].questions = SkeletonQuestions(OfFile(call.name, qs))
             /\ \A i \in 1..Len(details'[call.id].rawPages) :
                   details'[call.id].rawPages[i].pageNumber = pn =>
                      details'[call.id].rawPages[i].detections = nd
             /\ \A i \in 1..Len(qs) :
                   Truthy(qs[i].dataUrl) =>
                      Get(chunks', QuestionKey(call.id, OfFile(call.name, qs)[i])) # NoData]_vars

(***************************************************************************)
(* Specification of the sequential generator: the detections of any file   *)
(* of up to MaxCrops detections, any of which may give no canvas.          *)
(***************************************************************************)
InitMergeSpec ==
    /\ pages = <<>>
    /\ logicalQuestions = <<>>
    /\ grouped = FALSE
    /\ previous = NotRun
    /\ InitPool
    /\ InitGen
    /\ InitStore
    /\ buffer = [w |-> 1, h |-> 1, data |-> [i \in {0} |-> Paper]]
    /\ InitTrim
    /\ boxes2d = Undefined
    /\ InitNorm
    /\ fileDetections \in SeqsUpTo(CropResults, MaxCrops)
    /\ InitMerge

NextMerge ==
    CropNext /\ UNCHANGED <<groupVars, poolVars, genVars, storeVars, readVars, overlapVars, imageVars>>

SpecMerge == InitMergeSpec /\ [][NextMerge]_vars

\* the non-continuation detections handled before the n-th one
RealBefore(n) == {j \in 1..(n - 1) : fileDetections[j].id # CONTINUATION}

(***************************************************************************)
(* C40  Sequential generator merge target.  The canvas of a continuation   *)
(* detection that follows a non-continuation detection of its file is      *)
(* merged only into the item created for the nearest such detection before *)
(* it, also when the crop of that detection gave no canvas: never into an  *)
(* item created for another detection.                                     *)
(***************************************************************************)
MergeTargetIsPreceding ==
    \A i \in 1..Len(fileItems) :
       \A k \in 1..Len(fileItems[i].merged) :
          LET n == fileItems[i].merged[k]
          IN RealBefore(n) # {} =>
                fileItems[i].created = CHOOSE j \in RealBefore(n) : \A l \in RealBefore(n) : l <= j

====
